---- MODULE Spec2Model ----
(***************************************************************************)
(* A model of the kubectl-kaito chat and get-endpoint commands:            *)
(* flag validation, endpoint resolution, the interactive session loop,     *)
(* its slash-commands and the chat-completion client; and of the status    *)
(* and delete commands, as far as they read the workspace conditions and   *)
(* ask for confirmation.                                                   *)
(*                                                                         *)
(* float64 values are records [nan, v]: v counts hundredths, nan marks the *)
(* IEEE not-a-number, for which every ordered comparison is false.         *)
(* Text that the program trims, splits or tests for a "/" prefix is a      *)
(* sequence of tokens [slash, text]: a blank, or a word with or without a  *)
(* leading "/".                                                            *)
(***************************************************************************)
EXTENDS Integers, Sequences, FiniteSets, TLC

VARIABLES
    cmd,            \* the command invoked: "chat", "get-endpoint", "delete",
                    \* "status" (pkg/status.go) or "cmd/status" (pkg/cmd/status.go)
    pc,             \* "start", "reading" (blocked in scanner.Scan after the prompt), "done"
    WorkspaceName, Namespace, SystemPrompt, Temperature, MaxTokens, TopP,  \* ChatOptions
    External, Format,                                                       \* GetEndpointOptions
    svc, workspace, resolvable, probe,   \* the cluster and the local machine
    endpoint, modelName,                 \* locals of ChatOptions.run
    input,                               \* what the last scanner.Scan delivered
    resp,                                \* the HTTP answer to the last POST
    lastPost,                            \* the last POST issued
    out, errOut,                         \* stdout / stderr written by the last step
    calls,                               \* external calls issued so far, in order
    nlines,                              \* number of scanner.Scan calls that returned
    result,                              \* what RunE returned
    All, Force,                          \* DeleteOptions
    args,                                \* the arguments of delete, each split at "/"
    store                                \* the workspaces that the namespace holds

vars == <<cmd, pc, WorkspaceName, Namespace, SystemPrompt, Temperature, MaxTokens, TopP,
          External, Format, svc, workspace, resolvable, probe, endpoint, modelName,
          input, resp, lastPost, out, errOut, calls, nlines, result,
          All, Force, args, store>>

-----------------------------------------------------------------------------
(* Bounds *)

MaxLines == 3

-----------------------------------------------------------------------------
(* dynamically typed values: decoded JSON and unstructured objects; a value *)
(* is told from another by its type tag t first, then by its content v      *)

JStr(s) == [t |-> "str", v |-> s]
JNum(n) == [t |-> "num", v |-> n]
JArr(a) == [t |-> "arr", v |-> a]
JObj(f) == [t |-> "obj", v |-> f]
JNull == [t |-> "null", v |-> 0]
JInvalid == [t |-> "invalid", v |-> 0]

IsObj(j) == j.t = "obj"
Has(j, key) == IsObj(j) /\ key \in DOMAIN j.v

-----------------------------------------------------------------------------
(* float64 *)

F(h) == [nan |-> FALSE, v |-> h]
NaN == [nan |-> TRUE, v |-> 0]

FLt(a, b) == ~a.nan /\ ~b.nan /\ a.v < b.v
FGt(a, b) == ~a.nan /\ ~b.nan /\ a.v > b.v
FLe(a, b) == ~a.nan /\ ~b.nan /\ a.v <= b.v
FGe(a, b) == ~a.nan /\ ~b.nan /\ a.v >= b.v

(* fmt "%.1f": one decimal, round to nearest, ties to even. The result is  *)
(* the printed number in tenths, or the text NaN.                          *)
Fmt1(f) ==
    IF f.nan THEN [nan |-> TRUE, tenths |-> 0]
    ELSE LET a == IF f.v < 0 THEN -f.v ELSE f.v
             q == a \div 10
             r == a % 10
             t == IF r < 5 THEN q
                  ELSE IF r > 5 THEN q + 1
                  ELSE IF q % 2 = 0 THEN q ELSE q + 1
         IN [nan |-> FALSE, tenths |-> IF f.v < 0 THEN -t ELSE t]

-----------------------------------------------------------------------------
(* errors *)

Err(e) == [e |-> e, code |-> 0, body |-> ""]
Nil == Err("nil")
Running == Err("running")

-----------------------------------------------------------------------------
(* text *)

W(t) == [slash |-> FALSE, text |-> t]
C(t) == [slash |-> TRUE, text |-> t]
SP == W(" ")
IsSpace(tok) == tok = SP

RECURSIVE TrimLeft(_)
TrimLeft(s) == IF s # <<>> /\ IsSpace(Head(s)) THEN TrimLeft(Tail(s)) ELSE s

RECURSIVE TrimRight(_)
TrimRight(s) ==
    IF s # <<>> /\ IsSpace(s[Len(s)]) THEN TrimRight(SubSeq(s, 1, Len(s) - 1)) ELSE s

TrimSpace(s) == TrimRight(TrimLeft(s))
HasSlashPrefix(s) == s # <<>> /\ s[1].slash
Fields(s) == SelectSeq(s, LAMBDA tok : ~IsSpace(tok))

FloatLits ==
    ("1.5" :> F(150)) @@ ("1.25" :> F(125)) @@ ("5" :> F(500)) @@ ("0.5" :> F(50)) @@
    ("0" :> F(0)) @@ ("-0.5" :> F(-50)) @@ ("512" :> F(51200)) @@ ("NaN" :> NaN) @@
    ("0.7" :> F(70)) @@ ("3" :> F(300)) @@ ("0.9" :> F(90)) @@ ("-0.1" :> F(-10)) @@
    ("1024" :> F(102400)) @@ ("-1" :> F(-100))

IntLits ==
    ("512" :> 512) @@ ("5" :> 5) @@ ("0" :> 0) @@ ("-1" :> -1) @@ ("1024" :> 1024) @@
    ("3" :> 3)

ParseFloat(w) ==
    IF ~w.slash /\ w.text \in DOMAIN FloatLits
    THEN [ok |-> TRUE, v |-> FloatLits[w.text]]
    ELSE [ok |-> FALSE, v |-> F(0)]

Atoi(w) ==
    IF ~w.slash /\ w.text \in DOMAIN IntLits
    THEN [ok |-> TRUE, v |-> IntLits[w.text]]
    ELSE [ok |-> FALSE, v |-> 0]

-----------------------------------------------------------------------------
(* ChatOptions.validate *)

(* validate without its temperature check *)
validateNoTemperature(name, temp, topP, maxTok) ==
    IF name = "" THEN Err("workspace name is required")
    ELSE IF FLt(topP, F(0)) \/ FGt(topP, F(100))
         THEN Err("top-p must be between 0.0 and 1.0")
    ELSE IF maxTok <= 0 THEN Err("max-tokens must be greater than 0")
    ELSE Nil

validate(name, temp, topP, maxTok) ==
    IF name = "" THEN Err("workspace name is required")
    ELSE IF FLt(temp, F(0)) \/ FGt(temp, F(200))
         THEN Err("temperature must be between 0.0 and 2.0")
    ELSE IF FLt(topP, F(0)) \/ FGt(topP, F(100))
         THEN Err("top-p must be between 0.0 and 1.0")
    ELSE IF maxTok <= 0 THEN Err("max-tokens must be greater than 0")
    ELSE Nil

-----------------------------------------------------------------------------
(* URLs: "http://" + host + port + path; the empty string is NoURL *)

URL(host, port, path) == [host |-> host, port |-> port, path |-> path]
NoURL == URL(<<>>, "", "")

ClusterHost(name, ns) == <<name, ns, "svc", "cluster", "local">>
ClusterURL(name, ns) == URL(ClusterHost(name, ns), ":80", "")
LocalURL(port) == URL(<<"localhost">>, ":" \o port, "")

(* an external call: its kind and the URL or name it is made on *)
Call(k, target) == [k |-> k, target |-> target]
Named(name) == URL(<<name>>, "", "")

(* strings.TrimPrefix(strings.TrimPrefix(endpoint, "http://"), "https://"): *)
(* the scheme goes, the port and the path stay.                             *)
TrimScheme(u) == [host |-> u.host, port |-> u.port, path |-> u.path]

(* net.LookupHost: a name that is not a domain name (here: one that still  *)
(* carries ":port" or a path) is never resolved.                           *)
LookupHost(h, names) == h.port = "" /\ h.path = "" /\ h.host \in names

canAccessClusterEndpoint(u, names) == LookupHost(TrimScheme(u), names)

(* testEndpoint taking any answer at all for a reachable server *)
testEndpointAnyAnswer(ans) == ans.ok

(* ChatOptions.testEndpoint: HEAD with a 2s timeout *)
testEndpoint(ans) == ans.ok /\ ans.status < 500

(* the ports in ascending order *)
commonPortsAscending == <<"3000", "5000", "8000", "8080">>

(* the ports with the first one tried again at the end *)
commonPortsRetry == <<"8080", "8000", "3000", "5000", "8080">>

commonPorts == <<"8080", "8000", "3000", "5000">>

(* ChatOptions.checkLocalPortForward, from the i-th port on *)
RECURSIVE checkLocalPortForwardFrom(_, _)
checkLocalPortForwardFrom(i, pr) ==
    IF i > Len(commonPorts) THEN [url |-> NoURL, calls |-> <<>>]
    ELSE IF testEndpoint(pr[commonPorts[i]])
         THEN [url |-> LocalURL(commonPorts[i]),
               calls |-> <<Call("head", LocalURL(commonPorts[i]))>>]
         ELSE LET rest == checkLocalPortForwardFrom(i + 1, pr)
              IN [url |-> rest.url,
                  calls |-> <<Call("head", LocalURL(commonPorts[i]))>> \o rest.calls]

checkLocalPortForward(pr) == checkLocalPortForwardFrom(1, pr)

(* the path appended twice *)
WithPathTwice(u, path) == URL(u.host, u.port, u.path \o path \o path)

(* fmt.Sprintf("%s/v1/chat/completions", endpoint) *)
WithPath(u, path) == URL(u.host, u.port, u.path \o path)

(* ChatOptions.getInferenceEndpoint *)
getInferenceEndpoint(name, ns, s, names, pr) ==
    LET get == <<Call("svc_get", Named(name))>>
        clusterEndpoint == ClusterURL(name, ns)
        look == <<Call("lookup_host", TrimScheme(clusterEndpoint))>>
        local == checkLocalPortForward(pr)
    IN IF ~s.found
       THEN [url |-> NoURL, err |-> Err("failed to get service"), calls |-> get]
       ELSE IF s.ClusterIP = "" \/ s.ClusterIP = "None"
       THEN [url |-> NoURL, err |-> Err("service has no cluster IP"), calls |-> get]
       ELSE IF canAccessClusterEndpoint(clusterEndpoint, names)
       THEN [url |-> WithPath(clusterEndpoint, "/v1/chat/completions"), err |-> Nil,
             calls |-> get \o look]
       ELSE IF local.url # NoURL
       THEN [url |-> WithPath(local.url, "/v1/chat/completions"), err |-> Nil,
             calls |-> get \o look \o local.calls]
       ELSE [url |-> NoURL,
             err |-> Err("workspace endpoint is not accessible. To chat with this workspace, "
                         \o "first set up port-forwarding: kubectl port-forward svc/"
                         \o name \o " 8080:80"),
             calls |-> get \o look \o local.calls]

(* the external branch of GetEndpointOptions.getServiceEndpoint: the first *)
(* ingress entry, from the i-th on, that yields a non-empty endpoint        *)
RECURSIVE firstIngressEndpoint(_, _)
(* the ingress loop taking the hostname of an entry before its IP *)
firstIngressEndpointHostnameFirst(ing, i) ==
    IF i > Len(ing) THEN NoURL
    ELSE IF ing[i].Hostname # "" THEN URL(<<ing[i].Hostname>>, ":80", "")
    ELSE IF ing[i].IP # "" THEN URL(<<ing[i].IP>>, ":80", "")
    ELSE firstIngressEndpoint(ing, i + 1)

firstIngressEndpoint(ing, i) ==
    IF i > Len(ing) THEN NoURL
    ELSE IF ing[i].IP # "" THEN URL(<<ing[i].IP>>, ":80", "")
    ELSE IF ing[i].Hostname # "" THEN URL(<<ing[i].Hostname>>, ":80", "")
    ELSE firstIngressEndpoint(ing, i + 1)

(* getServiceEndpoint testing the ClusterIP for "" only *)
getServiceEndpointEmptyOnly(name, ns, s, external) ==
    LET get == <<Call("svc_get", Named(name))>>
        ext == IF external /\ s.Type = "LoadBalancer"
               THEN firstIngressEndpoint(s.Ingress, 1) ELSE NoURL
    IN IF ~s.found
       THEN [url |-> NoURL, err |-> Err("failed to get service"), calls |-> get]
       ELSE IF ext # NoURL
       THEN [url |-> ext, err |-> Nil, calls |-> get]
       ELSE IF s.ClusterIP # ""
       THEN [url |-> ClusterURL(name, ns), err |-> Nil, calls |-> get]
       ELSE [url |-> NoURL, err |-> Err("service has no cluster IP"), calls |-> get]

(* getServiceEndpoint going through the lookup and the local probes of the *)
(* chat resolver when it has no external endpoint to return                *)
getServiceEndpointWithTiers(name, ns, s, external) ==
    LET get == <<Call("svc_get", Named(name))>>
        ext == IF external /\ s.Type = "LoadBalancer"
               THEN firstIngressEndpoint(s.Ingress, 1) ELSE NoURL
        look == <<Call("lookup_host", TrimScheme(ClusterURL(name, ns)))>>
        local == checkLocalPortForward(probe)
    IN IF ~s.found
       THEN [url |-> NoURL, err |-> Err("failed to get service"), calls |-> get]
       ELSE IF ext # NoURL
       THEN [url |-> ext, err |-> Nil, calls |-> get]
       ELSE IF s.ClusterIP = "" \/ s.ClusterIP = "None"
       THEN [url |-> NoURL, err |-> Err("service has no cluster IP"), calls |-> get]
       ELSE IF ClusterHost(name, ns) \in resolvable
       THEN [url |-> ClusterURL(name, ns), err |-> Nil, calls |-> get \o look]
       ELSE IF local.url # NoURL
       THEN [url |-> local.url, err |-> Nil, calls |-> get \o look \o local.calls]
       ELSE [url |-> NoURL, err |-> Err("workspace endpoint is not accessible"),
             calls |-> get \o look \o local.calls]

(* GetEndpointOptions.getServiceEndpoint *)
getServiceEndpoint(name, ns, s, external) ==
    LET get == <<Call("svc_get", Named(name))>>
        ext == IF external /\ s.Type = "LoadBalancer"
               THEN firstIngressEndpoint(s.Ingress, 1) ELSE NoURL
    IN IF ~s.found
       THEN [url |-> NoURL, err |-> Err("failed to get service"), calls |-> get]
       ELSE IF ext # NoURL
       THEN [url |-> ext, err |-> Nil, calls |-> get]
       ELSE IF s.ClusterIP # "" /\ s.ClusterIP # "None"
       THEN [url |-> ClusterURL(name, ns), err |-> Nil, calls |-> get]
       ELSE [url |-> NoURL, err |-> Err("service has no cluster IP"), calls |-> get]

-----------------------------------------------------------------------------
(* the workspace object *)

(* GetEndpointOptions.isWorkspaceReady, from the i-th condition on *)
RECURSIVE readyFrom(_, _)
readyFrom(conds, i) ==
    IF i > Len(conds) THEN FALSE
    ELSE LET c == conds[i]
         IN IF /\ IsObj(c)
               /\ Has(c, "type") /\ c.v["type"].t = "str" /\ c.v["type"].v = "WorkspaceReady"
               /\ Has(c, "status") /\ c.v["status"].t = "str" /\ c.v["status"].v = "True"
            THEN TRUE
            ELSE readyFrom(conds, i + 1)

(* isWorkspaceReady taking any condition whose status is "True" *)
isWorkspaceReadyAnyCondition(status) ==
    /\ IsObj(status)
    /\ Has(status, "conditions")
    /\ status.v["conditions"].t = "arr"
    /\ \E i \in 1..Len(status.v["conditions"].v) :
         LET c == status.v["conditions"].v[i]
         IN IsObj(c) /\ Has(c, "status") /\ c.v["status"].t = "str" /\ c.v["status"].v = "True"

isWorkspaceReady(status) ==
    /\ IsObj(status)
    /\ Has(status, "conditions")
    /\ status.v["conditions"].t = "arr"
    /\ readyFrom(status.v["conditions"].v, 1)

(* the gate looking only at whether the workspace could be fetched *)
checkWorkspaceReadyFetchOnly(name, ws) ==
    IF ~ws.found THEN Err("failed to get workspace " \o name) ELSE Nil

(* GetEndpointOptions.checkWorkspaceReady *)
checkWorkspaceReady(name, ws) ==
    IF ~ws.found THEN Err("failed to get workspace " \o name)
    ELSE IF ~Has(ws.Object, "status")
         THEN Err("workspace " \o name \o " has no status information")
    ELSE IF ~isWorkspaceReady(ws.Object.v["status"])
         THEN Err("workspace " \o name \o " is not ready yet. Use 'kubectl kaito status "
                  \o "--workspace-name " \o name \o "' to check status")
    ELSE Nil

(* ChatOptions.convertToString *)
convertToString(j) ==
    IF j.t = "str" THEN j.v
    ELSE IF j.t = "null" THEN ""
    ELSE IF j.t = "num" THEN ToString(j.v)
    ELSE "<composite>"

(* ChatOptions.extractStringFromPath *)
RECURSIVE extractStringFromPath(_, _)
extractStringFromPath(obj, path) ==
    IF path = <<>> \/ ~IsObj(obj) THEN ""
    ELSE IF ~Has(obj, Head(path)) THEN ""
    ELSE IF Len(path) = 1 THEN convertToString(obj.v[Head(path)])
    ELSE extractStringFromPath(obj.v[Head(path)], Tail(path))

(* getModelName trying the top-level inference.preset.name first *)
getModelNameInferenceFirst(ws) ==
    LET a == extractStringFromPath(ws.Object, <<"spec", "inference", "preset", "name">>)
        b == extractStringFromPath(ws.Object, <<"inference", "preset", "name">>)
        c == extractStringFromPath(ws.Object, <<"inference", "model">>)
    IN IF ~ws.found THEN [name |-> "", err |-> Err("failed to get workspace")]
       ELSE IF b # "" THEN [name |-> b, err |-> Nil]
       ELSE IF a # "" THEN [name |-> a, err |-> Nil]
       ELSE IF c # "" THEN [name |-> c, err |-> Nil]
       ELSE [name |-> "Unknown", err |-> Nil]

(* ChatOptions.getModelName, with the fallback of ChatOptions.run *)
getModelName(ws) ==
    LET a == extractStringFromPath(ws.Object, <<"spec", "inference", "preset", "name">>)
        b == extractStringFromPath(ws.Object, <<"inference", "preset", "name">>)
        c == extractStringFromPath(ws.Object, <<"inference", "model">>)
    IN IF ~ws.found THEN [name |-> "", err |-> Err("failed to get workspace")]
       ELSE IF a # "" THEN [name |-> a, err |-> Nil]
       ELSE IF b # "" THEN [name |-> b, err |-> Nil]
       ELSE IF c # "" THEN [name |-> c, err |-> Nil]
       ELSE [name |-> "Unknown", err |-> Nil]

-----------------------------------------------------------------------------
(* what the session prints *)

Prompt == [k |-> "prompt"]
Banner(ws, model) == [k |-> "banner", ws |-> ws, model |-> model]
Ended == [k |-> "ended"]
Help == [k |-> "help"]
ClearScreen == [k |-> "clear"]
ModelInfo(model, ws, ns) == [k |-> "model", model |-> model, ws |-> ws, ns |-> ns]
Params(t, m, p) == [k |-> "params", temperature |-> Fmt1(t), max_tokens |-> m, top_p |-> Fmt1(p)]
SetUsage == [k |-> "usage"]
Unknown(w) == [k |-> "unknown command", word |-> w]
UnknownParam(w) == [k |-> "unknown parameter", word |-> w]
Invalid(param) == [k |-> "invalid value", param |-> param]
TemperatureSet(t) == [k |-> "temperature set", shown |-> Fmt1(t)]
MaxTokensSet(m) == [k |-> "max tokens set", shown |-> m]
TopPSet(p) == [k |-> "top-p set", shown |-> Fmt1(p)]
Reply(text) == [k |-> "reply", text |-> text]
ErrorLine(err) == [k |-> "error", err |-> err]

-----------------------------------------------------------------------------
(* setParameter clamping an out-of-range value to the nearest bound *)
setParameterClamping(param, value, t, m, p) ==
    LET f == ParseFloat(value)
        n == Atoi(value)
        keep == [Temperature |-> t, MaxTokens |-> m, TopP |-> p]
        clamp(x, hi) == IF FLt(x, F(0)) THEN F(0) ELSE IF FGt(x, F(hi)) THEN F(hi) ELSE x
    IN IF param = W("temperature")
       THEN IF f.ok /\ ~f.v.nan
            THEN [keep EXCEPT !.Temperature = clamp(f.v, 200)]
                     @@ [out |-> <<TemperatureSet(clamp(f.v, 200))>>]
            ELSE keep @@ [out |-> <<Invalid("temperature")>>]
       ELSE IF param = W("max_tokens")
       THEN IF n.ok
            THEN [keep EXCEPT !.MaxTokens = IF n.v > 0 THEN n.v ELSE 1]
                     @@ [out |-> <<MaxTokensSet(IF n.v > 0 THEN n.v ELSE 1)>>]
            ELSE keep @@ [out |-> <<Invalid("max_tokens")>>]
       ELSE IF param = W("top_p")
       THEN IF f.ok /\ ~f.v.nan
            THEN [keep EXCEPT !.TopP = clamp(f.v, 100)] @@ [out |-> <<TopPSet(clamp(f.v, 100))>>]
            ELSE keep @@ [out |-> <<Invalid("top_p")>>]
       ELSE keep @@ [out |-> <<UnknownParam(param)>>]

(* setParameter whose top_p case stores into the temperature *)
setParameterWrongField(param, value, t, m, p) ==
    LET f == ParseFloat(value)
        n == Atoi(value)
        keep == [Temperature |-> t, MaxTokens |-> m, TopP |-> p]
    IN IF param = W("temperature")
       THEN IF f.ok /\ FGe(f.v, F(0)) /\ FLe(f.v, F(200))
            THEN [keep EXCEPT !.Temperature = f.v] @@ [out |-> <<TemperatureSet(f.v)>>]
            ELSE keep @@ [out |-> <<Invalid("temperature")>>]
       ELSE IF param = W("max_tokens")
       THEN IF n.ok /\ n.v > 0
            THEN [keep EXCEPT !.MaxTokens = n.v] @@ [out |-> <<MaxTokensSet(n.v)>>]
            ELSE keep @@ [out |-> <<Invalid("max_tokens")>>]
       ELSE IF param = W("top_p")
       THEN IF f.ok /\ FGe(f.v, F(0)) /\ FLe(f.v, F(100))
            THEN [keep EXCEPT !.Temperature = f.v] @@ [out |-> <<TopPSet(f.v)>>]
            ELSE keep @@ [out |-> <<Invalid("top_p")>>]
       ELSE keep @@ [out |-> <<UnknownParam(param)>>]

(* ChatOptions.setParameter: the new parameters and what is printed *)
setParameter(param, value, t, m, p) ==
    LET f == ParseFloat(value)
        n == Atoi(value)
        keep == [Temperature |-> t, MaxTokens |-> m, TopP |-> p]
    IN IF param = W("temperature")
       THEN IF f.ok /\ FGe(f.v, F(0)) /\ FLe(f.v, F(200))
            THEN [keep EXCEPT !.Temperature = f.v] @@ [out |-> <<TemperatureSet(f.v)>>]
            ELSE keep @@ [out |-> <<Invalid("temperature")>>]
       ELSE IF param = W("max_tokens")
       THEN IF n.ok /\ n.v > 0
            THEN [keep EXCEPT !.MaxTokens = n.v] @@ [out |-> <<MaxTokensSet(n.v)>>]
            ELSE keep @@ [out |-> <<Invalid("max_tokens")>>]
       ELSE IF param = W("top_p")
       THEN IF f.ok /\ FGe(f.v, F(0)) /\ FLe(f.v, F(100))
            THEN [keep EXCEPT !.TopP = f.v] @@ [out |-> <<TopPSet(f.v)>>]
            ELSE keep @@ [out |-> <<Invalid("top_p")>>]
       ELSE keep @@ [out |-> <<UnknownParam(param)>>]

(* handleCommand leaving the session on a command it does not know *)
handleCommandExitOnUnknown(command, model, ws, ns, t, m, p) ==
    LET parts == Fields(command)
        keep == [exit |-> FALSE, Temperature |-> t, MaxTokens |-> m, TopP |-> p]
    IN IF Len(parts) = 0 THEN keep @@ [out |-> <<>>]
       ELSE IF parts[1] = C("help") THEN keep @@ [out |-> <<Help>>]
       ELSE IF parts[1] = C("quit") \/ parts[1] = C("exit")
            THEN [keep EXCEPT !.exit = TRUE] @@ [out |-> <<Ended>>]
       ELSE IF parts[1] = C("clear") THEN keep @@ [out |-> <<ClearScreen, Banner(ws, model)>>]
       ELSE IF parts[1] = C("model") THEN keep @@ [out |-> <<ModelInfo(model, ws, ns)>>]
       ELSE IF parts[1] = C("params") THEN keep @@ [out |-> <<Params(t, m, p)>>]
       ELSE IF parts[1] = C("set")
            THEN IF Len(parts) < 3 THEN keep @@ [out |-> <<SetUsage>>]
                 ELSE [exit |-> FALSE] @@ setParameter(parts[2], parts[3], t, m, p)
       ELSE [keep EXCEPT !.exit = TRUE] @@ [out |-> <<Unknown(parts[1])>>]

(* ChatOptions.handleCommand: whether to exit, the parameters, the output *)
handleCommand(command, model, ws, ns, t, m, p) ==
    LET parts == Fields(command)
        keep == [exit |-> FALSE, Temperature |-> t, MaxTokens |-> m, TopP |-> p]
    IN IF Len(parts) = 0 THEN keep @@ [out |-> <<>>]
       ELSE IF parts[1] = C("help") THEN keep @@ [out |-> <<Help>>]
       ELSE IF parts[1] = C("quit") \/ parts[1] = C("exit")
            THEN [keep EXCEPT !.exit = TRUE] @@ [out |-> <<Ended>>]
       ELSE IF parts[1] = C("clear") THEN keep @@ [out |-> <<ClearScreen, Banner(ws, model)>>]
       ELSE IF parts[1] = C("model") THEN keep @@ [out |-> <<ModelInfo(model, ws, ns)>>]
       ELSE IF parts[1] = C("params") THEN keep @@ [out |-> <<Params(t, m, p)>>]
       ELSE IF parts[1] = C("set")
            THEN IF Len(parts) < 3 THEN keep @@ [out |-> <<SetUsage>>]
                 ELSE [exit |-> FALSE] @@ setParameter(parts[2], parts[3], t, m, p)
       ELSE keep @@ [out |-> <<Unknown(parts[1])>>]

-----------------------------------------------------------------------------
(* ChatOptions.sendMessage *)

Msg(role, content) == [role |-> role, content |-> content]

(* Payload with the system message put after the user message *)
PayloadSystemLast(sys, message, t, m, p) ==
    [messages |-> IF sys # "" THEN <<Msg("user", message), Msg("system", sys)>>
                  ELSE <<Msg("user", message)>>,
     temperature |-> t, max_tokens |-> m, top_p |-> p]

Payload(sys, message, t, m, p) ==
    [messages |-> IF sys # "" THEN <<Msg("system", sys), Msg("user", message)>>
                  ELSE <<Msg("user", message)>>,
     temperature |-> t, max_tokens |-> m, top_p |-> p]

(* encoding/json refuses NaN *)
MarshalOK(payload) == ~payload.temperature.nan /\ ~payload.top_p.nan

NoResp == [sent |-> FALSE, transportOK |-> FALSE, status |-> 0, readOK |-> FALSE,
           raw |-> "", json |-> JInvalid]
HTTP(status, raw, json) == [sent |-> TRUE, transportOK |-> TRUE, status |-> status,
                            readOK |-> TRUE, raw |-> raw, json |-> json]

(* json.Unmarshal into a map[string]interface{} *)
UnmarshalOK(j) == j.t = "obj" \/ j.t = "null"

(* choices[0].message.content, when the shape is the expected one *)
HasContent(j) ==
    /\ Has(j, "choices")
    /\ j.v["choices"].t = "arr"
    /\ Len(j.v["choices"].v) > 0
    /\ Has(j.v["choices"].v[1], "message")
    /\ Has(j.v["choices"].v[1].v["message"], "content")
    /\ j.v["choices"].v[1].v["message"].v["content"].t = "str"

(* Content taken from the last choice *)
ContentLastChoice(j) == j.v["choices"].v[Len(j.v["choices"].v)].v["message"].v["content"].v

Content(j) == j.v["choices"].v[1].v["message"].v["content"].v

(* sendMessage parsing the body whatever the status code *)
sendMessageAnyStatus(url, message, sys, t, m, p, r) ==
    LET payload == Payload(sys, message, t, m, p)
        fail(e) == [reply |-> <<>>, err |-> e, posted |-> TRUE]
    IN IF ~MarshalOK(payload)
       THEN [reply |-> <<>>, err |-> Err("failed to marshal request"), posted |-> FALSE]
       ELSE IF ~r.transportOK THEN fail(Err("failed to send request"))
       ELSE IF ~r.readOK THEN fail(Err("failed to read response"))
       ELSE IF ~UnmarshalOK(r.json) THEN fail(Err("failed to parse response"))
       ELSE IF HasContent(r.json)
            THEN [reply |-> TrimSpace(Content(r.json)), err |-> Nil, posted |-> TRUE]
       ELSE fail(Err("unexpected response format"))

(* sendMessage treating only the 5xx status codes as failures *)
sendMessageOnlyServerErrors(url, message, sys, t, m, p, r) ==
    LET payload == Payload(sys, message, t, m, p)
        fail(e) == [reply |-> <<>>, err |-> e, posted |-> TRUE]
    IN IF ~MarshalOK(payload)
       THEN [reply |-> <<>>, err |-> Err("failed to marshal request"), posted |-> FALSE]
       ELSE IF ~r.transportOK THEN fail(Err("failed to send request"))
       ELSE IF r.readOK /\ r.status >= 500
            THEN fail([e |-> "API request failed with status", code |-> r.status,
                       body |-> r.raw])
       ELSE IF ~r.readOK THEN fail(Err("failed to read response"))
       ELSE IF ~UnmarshalOK(r.json) THEN fail(Err("failed to parse response"))
       ELSE IF HasContent(r.json)
            THEN [reply |-> TrimSpace(Content(r.json)), err |-> Nil, posted |-> TRUE]
       ELSE fail(Err("unexpected response format"))

(* the reply or the error, given the answer r of the server *)
sendMessage(url, message, sys, t, m, p, r) ==
    LET payload == Payload(sys, message, t, m, p)
        fail(e) == [reply |-> <<>>, err |-> e, posted |-> TRUE]
    IN IF ~MarshalOK(payload)
       THEN [reply |-> <<>>, err |-> Err("failed to marshal request"), posted |-> FALSE]
       ELSE IF ~r.transportOK THEN fail(Err("failed to send request"))
       ELSE IF r.readOK /\ r.status # 200
            THEN fail([e |-> "API request failed with status", code |-> r.status,
                       body |-> r.raw])
       ELSE IF ~r.readOK THEN fail(Err("failed to read response"))
       ELSE IF ~UnmarshalOK(r.json) THEN fail(Err("failed to parse response"))
       ELSE IF HasContent(r.json)
            THEN [reply |-> TrimSpace(Content(r.json)), err |-> Nil, posted |-> TRUE]
       ELSE fail(Err("unexpected response format"))

-----------------------------------------------------------------------------
(* the values the flags, the cluster and the terminal are drawn from *)

Names == {"", "ws"}
NamespaceFlags == {"", "prod"}
KubeconfigNamespaces == {"", "team"}
ConfigOutcomes == {"ok", "no rest config", "no client"}
SystemPrompts == {"", "be brief"}
TemperatureFlags == {F(-50), F(70), F(300), NaN}
TopPFlags == {F(-10), F(90), F(150)}
MaxTokensFlags == {-1, 0, 1024}
Formats == {"url", "json", "yaml"}

Ingress(ip, hostname) == [IP |-> ip, Hostname |-> hostname]
Service(clusterIP, type, ingress) ==
    [found |-> TRUE, ClusterIP |-> clusterIP, Type |-> type, Ingress |-> ingress]
NoService == [found |-> FALSE, ClusterIP |-> "", Type |-> "", Ingress |-> <<>>]

ClusterIPs == {"", "None", "10.0.0.7"}
ServiceTypes == {"ClusterIP", "LoadBalancer"}
IngressLists == {<<>>,
                 <<Ingress("", "")>>,
                 <<Ingress("", ""), Ingress("20.1.2.3", "lb.example.com")>>,
                 <<Ingress("", "lb.example.com"), Ingress("20.1.2.3", "")>>}
Services == {NoService} \cup
            {Service(ip, ty, ing) : ip \in ClusterIPs, ty \in ServiceTypes, ing \in IngressLists}
ChatServices == {NoService, Service("None", "ClusterIP", <<>>),
                 Service("10.0.0.7", "ClusterIP", <<>>)}

Condition(type, status) == JObj([type |-> JStr(type), status |-> JStr(status)])
Preset(name) == JObj([preset |-> JObj([name |-> JStr(name)])])
NoWorkspace == [found |-> FALSE, Object |-> JNull]
Workspace(obj) == [found |-> TRUE, Object |-> JObj(obj)]
WsReady ==
    Workspace([inference |-> Preset("phi-3"),
               status |-> JObj([conditions |->
                   JArr(<<Condition("ResourceReady", "True"),
                          Condition("WorkspaceReady", "True")>>)])])
WsNotReady ==
    Workspace([inference |-> Preset("phi-3"),
               status |-> JObj([conditions |->
                   JArr(<<Condition("ResourceReady", "True"),
                          Condition("WorkspaceReady", "False")>>)])])
WsNoCondition ==
    Workspace([inference |-> Preset("phi-3"),
               status |-> JObj([conditions |->
                   JArr(<<Condition("ResourceReady", "True")>>)])])
WsNoStatus == Workspace([inference |-> Preset("phi-3")])
WsReadyNoModel ==
    Workspace([status |-> JObj([conditions |->
                   JArr(<<Condition("WorkspaceReady", "True")>>)])])
WsUnknown ==
    Workspace([inference |-> Preset("phi-3"),
               status |-> JObj([conditions |->
                   JArr(<<Condition("WorkspaceReady", "Unknown")>>)])])
WsStatusNotMap == Workspace([inference |-> Preset("phi-3"), status |-> JStr("Running")])
WsNoConditions == Workspace([inference |-> Preset("phi-3"), status |-> JObj(<<>>)])
WsConditionsNotList ==
    Workspace([inference |-> Preset("phi-3"),
               status |-> JObj([conditions |-> JStr("WorkspaceReady=True")])])
WsReadyAfterJunk ==
    Workspace([inference |-> Preset("phi-3"),
               status |-> JObj([conditions |->
                   JArr(<<JStr("WorkspaceReady"),
                          JObj([type |-> JNum(1), status |-> JStr("True")]),
                          Condition("WorkspaceReady", "False"),
                          Condition("WorkspaceReady", "True")>>)])])
Workspaces == {NoWorkspace, WsReady, WsNotReady, WsNoCondition, WsNoStatus, WsReadyNoModel,
               WsUnknown, WsStatusNotMap, WsNoConditions, WsConditionsNotList,
               WsReadyAfterJunk}
ChatWorkspaces == {WsReady, WsNotReady}

(* workspace objects that name their model in different places *)
PresetAndModel(name, model) ==
    JObj([preset |-> JObj([name |-> name]), model |-> model])
WsSpecPreset == Workspace([spec |-> JObj([inference |-> Preset("llama-3")])])
WsAllThree ==
    Workspace([spec |-> JObj([inference |-> Preset("llama-3")]),
               inference |-> PresetAndModel(JStr("phi-3"), JStr("falcon"))])
WsSpecEmpty ==
    Workspace([spec |-> JObj([inference |-> Preset("")]),
               inference |-> PresetAndModel(JStr("phi-3"), JStr("falcon"))])
WsSpecNull ==
    Workspace([spec |-> JObj([inference |-> JObj([preset |-> JObj([name |-> JNull])])]),
               inference |-> JObj([model |-> JStr("falcon")])])
WsSpecNotMap ==
    Workspace([spec |-> JObj([inference |-> JStr("llama-3")]),
               inference |-> PresetAndModel(JStr(""), JStr("falcon"))])
WsModelOnly == Workspace([inference |-> JObj([model |-> JStr("falcon")])])
WsPresetNumber == Workspace([inference |-> PresetAndModel(JNum(7), JStr("falcon"))])
WsAllEmpty ==
    Workspace([spec |-> JObj([inference |-> Preset("")]),
               inference |-> PresetAndModel(JStr(""), JStr(""))])
WsNoInference == Workspace([spec |-> JObj(<<>>)])
ModelWorkspaces == {WsSpecPreset, WsAllThree, WsSpecEmpty, WsSpecNull, WsSpecNotMap,
                    WsModelOnly, WsPresetNumber, WsAllEmpty, WsNoInference}

ResolveNames == Names \cup {"llm"}
HostSets == {{}, {ClusterHost(n, ns) : n \in ResolveNames, ns \in {"prod", "team", "default"}}}

Refused == [ok |-> FALSE, status |-> 0]
Answered(status) == [ok |-> TRUE, status |-> status]
ProbeAnswers == {Refused, Answered(200), Answered(404), Answered(500)}
Ports == {commonPorts[i] : i \in 1..Len(commonPorts)}
Probes == [Ports -> ProbeAnswers]
NothingListens == [p \in Ports |-> Refused]
ChatProbes == {NothingListens,
               [NothingListens EXCEPT !["8080"] = Answered(500), !["8000"] = Answered(404)]}

Lines ==
    { <<>>, <<SP>>,
      <<C("help")>>, <<C("quit")>>, <<C("exit")>>, <<C("clear")>>, <<C("model")>>,
      <<C("params")>>, <<C("bogus")>>, <<C("")>>,
      <<SP, C("quit"), SP>>, <<C("exit"), SP, W("now")>>,
      <<C("set")>>, <<C("set"), SP, W("temperature")>>,
      <<C("set"), SP, W("temperature"), SP, W("1.5")>>,
      <<C("set"), SP, W("temperature"), SP, W("1.25")>>,
      <<C("set"), SP, W("temperature"), SP, W("5")>>,
      <<C("set"), SP, W("temperature"), SP, W("-0.5")>>,
      <<C("set"), SP, W("temperature"), SP, W("abc")>>,
      <<C("set"), SP, W("temperature"), SP, W("NaN")>>,
      <<C("set"), SP, W("temperature"), SP, W("0"), SP, W("please")>>,
      <<C("set"), SP, W("max_tokens"), SP, W("512")>>,
      <<C("set"), SP, W("max_tokens"), SP, W("0")>>,
      <<C("set"), SP, W("max_tokens"), SP, W("1.5")>>,
      <<C("set"), SP, W("top_p"), SP, W("0.5")>>,
      <<C("set"), SP, W("top_p"), SP, W("1.5")>>,
      <<C("set"), SP, W("top_k"), SP, W("5")>>,
      <<W("hello")>>, <<W("quit")>>, <<SP, W("exit")>>, <<SP, W("tell"), SP, W("me"), SP, C("quit"), SP>> }

Choice(content) == JObj([message |-> JObj([content |-> content])])
Choices(content) == JObj([choices |-> JArr(<<Choice(content)>>)])
Responses ==
    { [NoResp EXCEPT !.sent = TRUE],
      HTTP(200, "hi", Choices(JStr(<<SP, W("hi"), SP>>))),
      [HTTP(200, "", JInvalid) EXCEPT !.readOK = FALSE],
      HTTP(200, "<html>", JInvalid),
      HTTP(200, "{}", JObj(<<>>)),
      HTTP(200, "no choices", JObj([choices |-> JArr(<<>>)])),
      HTTP(200, "number", Choices(JNum(5))),
      HTTP(200, "two choices", JObj([choices |-> JArr(<<Choice(JStr(<<SP, W("hi"), SP, W("there")>>)),
                                                        Choice(JStr(<<W("bye")>>))>>)])),
      HTTP(200, "first not an object", JObj([choices |-> JArr(<<JStr(<<W("hi")>>),
                                                                Choice(JStr(<<W("bye")>>))>>)])),
      HTTP(200, "message not an object",
           JObj([choices |-> JArr(<<JObj([message |-> JStr(<<W("hi")>>)])>>)])),
      HTTP(500, "boom", JInvalid),
      [HTTP(502, "bo", JInvalid) EXCEPT !.readOK = FALSE],
      HTTP(404, "hi", Choices(JStr(<<W("hi")>>))) }

-----------------------------------------------------------------------------
(* state *)

NoInput == [kind |-> "none", text |-> <<>>]
NoPost == [sent |-> FALSE, url |-> NoURL, payload |-> Payload("", <<>>, F(0), 0, F(0))]
Post(url, payload) == [sent |-> TRUE, url |-> url, payload |-> payload]
Klog(err) == [k |-> "klog", err |-> err]
Hint == [k |-> "hint"]
UrlOut(url) == [k |-> "url", endpoint |-> url]
JsonOut(ws, ns, url, access) ==
    [k |-> "json", workspace |-> ws, namespace |-> ns, endpoint |-> url, access |-> access]

(* no delete command is under way *)
NotDeleting == All = FALSE /\ Force = FALSE /\ args = <<>> /\ store = <<>>

Idle ==
    /\ pc = "start"
    /\ endpoint = NoURL /\ modelName = ""
    /\ input = NoInput /\ resp = NoResp /\ lastPost = NoPost
    /\ out = <<>> /\ errOut = <<>> /\ calls = <<>> /\ nlines = 0
    /\ result = Running

(* the chat command, its flags parsed, in a small cluster *)
Init ==
    /\ cmd = "chat"
    /\ WorkspaceName \in Names
    /\ Namespace = ""
    /\ SystemPrompt \in SystemPrompts
    /\ Temperature \in TemperatureFlags
    /\ MaxTokens \in MaxTokensFlags
    /\ TopP \in TopPFlags
    /\ External = FALSE /\ Format = "url"
    /\ svc \in ChatServices
    /\ workspace \in ChatWorkspaces
    /\ resolvable = {ClusterHost(n, ns) : n \in Names, ns \in {"prod", "team", "default"}}
    /\ probe \in ChatProbes
    /\ Idle
    /\ NotDeleting

(* o.Namespace after the "Get namespace" step of run *)
namespaceOf(flag, kubeNs) ==
    IF flag # "" THEN flag ELSE IF kubeNs # "" THEN kubeNs ELSE "default"

Finish(err) == pc' = "done" /\ result' = err

(* NewChatCmd.RunE when validate fails *)
ChatValidationFails ==
    /\ cmd = "chat" /\ pc = "start"
    /\ validate(WorkspaceName, Temperature, TopP, MaxTokens) # Nil
    /\ Finish(validate(WorkspaceName, Temperature, TopP, MaxTokens))
    /\ errOut' = <<Klog(validate(WorkspaceName, Temperature, TopP, MaxTokens))>>
    /\ UNCHANGED <<cmd, All, Force, args, store, WorkspaceName, Namespace, SystemPrompt, Temperature, MaxTokens, TopP,
                   External, Format, svc, workspace, resolvable, probe, endpoint, modelName,
                   input, resp, lastPost, out, calls, nlines>>

(* NewChatCmd.RunE when validate passes: ChatOptions.run up to the first prompt *)
ChatRun ==
    /\ cmd = "chat" /\ pc = "start"
    /\ validate(WorkspaceName, Temperature, TopP, MaxTokens) = Nil
    /\ \E kubeNs \in KubeconfigNamespaces, cfg \in ConfigOutcomes :
         LET ns == namespaceOf(Namespace, kubeNs)
             r == getInferenceEndpoint(WorkspaceName, ns, svc, resolvable, probe)
             mn == getModelName(workspace)
             model == IF mn.err # Nil THEN "Unknown" ELSE mn.name
         IN /\ Namespace' = ns
            /\ IF cfg # "ok"
               THEN /\ Finish(Err("failed to get " \o cfg))
                    /\ errOut' = <<Klog(Err("failed to get " \o cfg))>>
                    /\ UNCHANGED <<endpoint, modelName, out, calls>>
               ELSE IF r.err # Nil
               THEN /\ Finish(r.err)
                    /\ errOut' = <<Klog(r.err)>>
                    /\ calls' = r.calls
                    /\ UNCHANGED <<endpoint, modelName, out>>
               ELSE /\ pc' = "reading"
                    /\ endpoint' = r.url
                    /\ modelName' = model
                    /\ calls' = r.calls \o <<Call("ws_get", Named(WorkspaceName))>>
                    /\ out' = <<Banner(WorkspaceName, model), Hint, Prompt>>
                    /\ errOut' = <<>>
                    /\ UNCHANGED result
    /\ UNCHANGED <<cmd, All, Force, args, store, WorkspaceName, SystemPrompt, Temperature, MaxTokens, TopP,
                   External, Format, svc, workspace, resolvable, probe,
                   input, resp, lastPost, nlines>>

Scanning == cmd = "chat" /\ pc = "reading" /\ nlines < MaxLines

Scanned(kind, text) == input' = [kind |-> kind, text |-> text] /\ nlines' = nlines + 1

Fixed == UNCHANGED <<cmd, All, Force, args, store, WorkspaceName, Namespace, SystemPrompt, External, Format,
                     svc, workspace, resolvable, probe, endpoint, modelName>>

(* one turn of the loop of startInteractiveSession: a line that starts with "/" *)
ReadCommand ==
    /\ Scanning
    /\ \E l \in Lines :
         LET hc == handleCommand(TrimSpace(l), modelName, WorkspaceName, Namespace,
                                 Temperature, MaxTokens, TopP)
         IN /\ HasSlashPrefix(TrimSpace(l))
            /\ Scanned("line", l)
            /\ Temperature' = hc.Temperature
            /\ MaxTokens' = hc.MaxTokens
            /\ TopP' = hc.TopP
            /\ IF hc.exit
               THEN Finish(Nil) /\ out' = hc.out
               ELSE pc' = "reading" /\ out' = hc.out \o <<Prompt>> /\ UNCHANGED result
    /\ errOut' = <<>> /\ resp' = NoResp /\ lastPost' = NoPost
    /\ UNCHANGED calls
    /\ Fixed

(* one turn of the loop: a line that is empty once trimmed *)
ReadBlank ==
    /\ Scanning
    /\ \E l \in Lines :
         /\ ~HasSlashPrefix(TrimSpace(l))
         /\ TrimSpace(l) = <<>>
         /\ Scanned("line", l)
    /\ out' = <<Prompt>> /\ errOut' = <<>> /\ resp' = NoResp /\ lastPost' = NoPost
    /\ UNCHANGED <<pc, result, calls, Temperature, MaxTokens, TopP>>
    /\ Fixed

(* one turn of the loop: a chat message, and the server's answer to it *)
ReadMessage ==
    /\ Scanning
    /\ \E l \in Lines, r \in Responses :
         LET message == TrimSpace(l)
             sm == sendMessage(endpoint, message, SystemPrompt, Temperature, MaxTokens, TopP, r)
         IN /\ ~HasSlashPrefix(message)
            /\ message # <<>>
            /\ Scanned("line", l)
            /\ IF sm.posted
               THEN /\ lastPost' = Post(endpoint, Payload(SystemPrompt, message, Temperature,
                                                          MaxTokens, TopP))
                    /\ resp' = r
                    /\ calls' = Append(calls, Call("post", endpoint))
               ELSE /\ lastPost' = NoPost /\ resp' = NoResp /\ UNCHANGED calls
            /\ IF sm.err # Nil
               THEN out' = <<Prompt>> /\ errOut' = <<ErrorLine(sm.err)>>
               ELSE out' = <<Reply(sm.reply), Prompt>> /\ errOut' = <<>>
    /\ UNCHANGED <<pc, result, Temperature, MaxTokens, TopP>>
    /\ Fixed

(* scanner.Scan returns false and scanner.Err is nil: end of file *)
ReadEOF ==
    /\ Scanning
    /\ Scanned("eof", <<>>)
    /\ Finish(Err("error reading input"))
    /\ out' = <<>> /\ errOut' = <<Klog(Err("error reading input"))>>
    /\ resp' = NoResp /\ lastPost' = NoPost
    /\ UNCHANGED <<calls, Temperature, MaxTokens, TopP>>
    /\ Fixed

(* scanner.Scan returns false and scanner.Err is not nil: a read error *)
ReadError ==
    /\ Scanning
    /\ Scanned("error", <<>>)
    /\ Finish(Nil)
    /\ out' = <<Ended>> /\ errOut' = <<>>
    /\ resp' = NoResp /\ lastPost' = NoPost
    /\ UNCHANGED <<calls, Temperature, MaxTokens, TopP>>
    /\ Fixed

Next ==
    \/ ChatValidationFails
    \/ ChatRun
    \/ ReadCommand
    \/ ReadBlank
    \/ ReadMessage
    \/ ReadEOF
    \/ ReadError

Spec == Init /\ [][Next]_vars

-----------------------------------------------------------------------------
(* endpoint resolution of both commands, over every Service, name server   *)
(* and set of listening local ports                                         *)

(* GetEndpointOptions.validate *)
validateGetEndpoint(name, format) ==
    IF name = "" THEN Err("workspace name is required")
    ELSE IF format # "url" /\ format # "json" THEN Err("format must be 'url' or 'json'")
    ELSE Nil

InitResolve ==
    /\ SystemPrompt = "" /\ Temperature = F(70) /\ MaxTokens = 1024 /\ TopP = F(90)
    /\ svc \in Services
    /\ \/ /\ cmd = "chat"
          /\ WorkspaceName \in ResolveNames \ {""}
          /\ Namespace = "prod"
          /\ External = FALSE /\ Format = "url"
          /\ resolvable \in HostSets
          /\ \/ workspace \in Workspaces /\ probe \in Probes
             \/ workspace \in ModelWorkspaces /\ probe \in ChatProbes
       \/ /\ cmd = "get-endpoint"
          /\ WorkspaceName \in ResolveNames
          /\ Namespace \in NamespaceFlags
          /\ External \in BOOLEAN
          /\ Format \in Formats
          /\ workspace \in Workspaces
          /\ resolvable \in HostSets
          /\ probe \in ChatProbes
    /\ Idle
    /\ NotDeleting

(* NewGetEndpointCmd.RunE when validate fails *)
GetEndpointValidationFails ==
    /\ cmd = "get-endpoint" /\ pc = "start"
    /\ validateGetEndpoint(WorkspaceName, Format) # Nil
    /\ Finish(validateGetEndpoint(WorkspaceName, Format))
    /\ UNCHANGED <<cmd, All, Force, args, store, WorkspaceName, Namespace, SystemPrompt, Temperature, MaxTokens, TopP,
                   External, Format, svc, workspace, resolvable, probe, endpoint, modelName,
                   input, resp, lastPost, out, errOut, calls, nlines>>

(* NewGetEndpointCmd.RunE when validate passes: GetEndpointOptions.run *)
GetEndpointRun ==
    /\ cmd = "get-endpoint" /\ pc = "start"
    /\ validateGetEndpoint(WorkspaceName, Format) = Nil
    /\ \E kubeNs \in KubeconfigNamespaces, cfg \in ConfigOutcomes :
         LET ns == namespaceOf(Namespace, kubeNs)
             ready == checkWorkspaceReady(WorkspaceName, workspace)
             r == getServiceEndpoint(WorkspaceName, ns, svc, External)
             wsGet == <<Call("ws_get", Named(WorkspaceName))>>
         IN /\ Namespace' = ns
            /\ pc' = "done"
            /\ IF cfg # "ok"
               THEN /\ result' = Err("failed to get " \o cfg)
                    /\ errOut' = <<Klog(Err("failed to get " \o cfg))>>
                    /\ UNCHANGED <<endpoint, out, calls>>
               ELSE IF ready # Nil
               THEN /\ result' = ready
                    /\ calls' = wsGet
                    /\ errOut' = IF workspace.found THEN <<>> ELSE <<Klog(ready)>>
                    /\ UNCHANGED <<endpoint, out>>
               ELSE IF r.err # Nil
               THEN /\ result' = r.err
                    /\ calls' = wsGet \o r.calls
                    /\ errOut' = <<Klog(r.err)>>
                    /\ UNCHANGED <<endpoint, out>>
               ELSE /\ result' = Nil
                    /\ endpoint' = r.url
                    /\ calls' = wsGet \o r.calls
                    /\ out' = IF Format = "json"
                              THEN <<JsonOut(WorkspaceName, ns, r.url,
                                             IF External THEN "external" ELSE "cluster")>>
                              ELSE <<UrlOut(r.url)>>
                    /\ errOut' = <<>>
    /\ UNCHANGED <<cmd, All, Force, args, store, WorkspaceName, SystemPrompt, Temperature, MaxTokens, TopP,
                   External, Format, svc, workspace, resolvable, probe, modelName,
                   input, resp, lastPost, nlines>>

NextResolve ==
    \/ ChatRun
    \/ GetEndpointValidationFails
    \/ GetEndpointRun

SpecResolve == InitResolve /\ [][NextResolve]_vars

-----------------------------------------------------------------------------
(* the status command: what it reads from the conditions of a workspace *)

(* unstructured.NestedMap(obj, key): the map under key, or a nil map *)
NestedMap(obj, key) == IF Has(obj, key) /\ IsObj(obj.v[key]) THEN obj.v[key] ELSE JNull

(* unstructured.NestedSlice(m, key): the list under key of a map *)
NestedSlice(m, key) ==
    IF Has(m, key) /\ m.v[key].t = "arr"
    THEN [found |-> TRUE, list |-> m.v[key].v]
    ELSE [found |-> FALSE, list |-> <<>>]

(* condMap[key].(string), unstructured.NestedString: the string, or "" *)
IsStringField(c, key) == Has(c, key) /\ c.v[key].t = "str"
StringField(c, key) == IF IsStringField(c, key) THEN c.v[key].v ELSE ""

(* what the detail view of pkg/status.go prints under "Deployment Status" *)
StatusLine(text) == [k |-> "status", text |-> text]
DeploymentStatus(a) ==
    [k |-> "deployment status", ResourceReady |-> a.ResourceReady,
     InferenceReady |-> a.InferenceReady, WorkspaceReady |-> a.WorkspaceReady]
Details(name, ns) == [k |-> "details", name |-> name, namespace |-> ns]
TableHeader == [k |-> "header"]
Row(name, resourceReady, inferenceReady, workspaceReady) ==
    [k |-> "row", name |-> name, ResourceReady |-> resourceReady,
     InferenceReady |-> inferenceReady, WorkspaceReady |-> workspaceReady]
NoWorkspacesFound == [k |-> "no workspaces"]
ConditionsHeader == [k |-> "conditions"]
ConditionLine(type, status) == [k |-> "condition", type |-> type, status |-> status]

(* the switch on condType in the loop of StatusOptions.printDeploymentStatus *)
deploymentSwitch(acc, condType, condStatus) ==
    IF condType = "ResourceReady" THEN [acc EXCEPT !.ResourceReady = condStatus]
    ELSE IF condType = "InferenceReady" THEN [acc EXCEPT !.InferenceReady = condStatus]
    ELSE IF condType = "WorkspaceSucceeded" THEN [acc EXCEPT !.WorkspaceReady = condStatus]
    ELSE acc

(* the loop of StatusOptions.printDeploymentStatus, from the i-th condition *)
RECURSIVE deploymentConditions(_, _, _)
deploymentConditions(condList, i, acc) ==
    IF i > Len(condList) THEN acc
    ELSE IF ~IsObj(condList[i]) THEN deploymentConditions(condList, i + 1, acc)
    ELSE deploymentConditions(condList, i + 1,
             deploymentSwitch(acc, StringField(condList[i], "type"),
                              StringField(condList[i], "status")))

(* StatusOptions.printDeploymentStatus of pkg/status.go *)
printDeploymentStatus(ws) ==
    LET status == ws.Object.v["status"]
        unknown == [ResourceReady |-> "Unknown", InferenceReady |-> "Unknown",
                    WorkspaceReady |-> "Unknown"]
    IN IF ~Has(ws.Object, "status") THEN <<StatusLine("Not Available")>>
       ELSE IF ~IsObj(status) THEN <<StatusLine("Invalid Format")>>
       ELSE IF Has(status, "conditions") /\ status.v["conditions"].t = "arr"
       THEN <<DeploymentStatus(deploymentConditions(status.v["conditions"].v, 1, unknown))>>
       ELSE <<>>

(* the loop of StatusOptions.getConditionStatus, from the i-th condition *)
RECURSIVE getConditionStatusFrom(_, _, _)
getConditionStatusFrom(conditions, i, conditionType) ==
    IF i > Len(conditions) THEN "Unknown"
    ELSE IF /\ IsObj(conditions[i])
            /\ StringField(conditions[i], "type") = conditionType
            /\ IsStringField(conditions[i], "status")
         THEN conditions[i].v["status"].v
         ELSE getConditionStatusFrom(conditions, i + 1, conditionType)

(* StatusOptions.getConditionStatus of pkg/status.go *)
getConditionStatus(ws, conditionType) ==
    LET conditions == NestedSlice(NestedMap(ws.Object, "status"), "conditions")
    IN IF ~conditions.found THEN "Unknown"
       ELSE getConditionStatusFrom(conditions.list, 1, conditionType)

(* the loop of extractConditionStatus, from the i-th condition *)
RECURSIVE extractConditionStatusFrom(_, _, _)
extractConditionStatusFrom(conditions, i, conditionType) ==
    IF i > Len(conditions) THEN "Unknown"
    ELSE IF IsObj(conditions[i]) /\ StringField(conditions[i], "type") = conditionType
         THEN StringField(conditions[i], "status")
         ELSE extractConditionStatusFrom(conditions, i + 1, conditionType)

(* extractConditionStatus of pkg/cmd/status.go *)
extractConditionStatus(status, conditionType) ==
    LET conditions == NestedSlice(status, "conditions")
    IN IF ~conditions.found THEN "Unknown"
       ELSE extractConditionStatusFrom(conditions.list, 1, conditionType)

(* the condition lines of StatusOptions.printWorkspaceDetail, from the i-th on *)
RECURSIVE conditionLines(_, _)
conditionLines(conditions, i) ==
    IF i > Len(conditions) THEN <<>>
    ELSE IF ~IsObj(conditions[i]) THEN conditionLines(conditions, i + 1)
    ELSE <<ConditionLine(StringField(conditions[i], "type"),
                         StringField(conditions[i], "status"))>>
         \o conditionLines(conditions, i + 1)

(* StatusOptions.printWorkspaceDetail of pkg/cmd/status.go *)
printWorkspaceDetail(name, ns, ws) ==
    LET status == NestedMap(ws.Object, "status")
    IN IF ~IsObj(status) THEN <<Details(name, ns), StatusLine("No status available")>>
       ELSE <<Details(name, ns), ConditionsHeader>>
            \o conditionLines(NestedSlice(status, "conditions").list, 1)

(* workspace objects as the Kaito controller writes them, and with the same *)
(* condition type more than once                                            *)
WsSucceeded ==
    Workspace([inference |-> Preset("phi-3"),
               status |-> JObj([conditions |->
                   JArr(<<Condition("ResourceReady", "True"),
                          Condition("InferenceReady", "True"),
                          Condition("WorkspaceSucceeded", "True")>>)])])
WsSucceededNotReady ==
    Workspace([inference |-> Preset("phi-3"),
               status |-> JObj([conditions |->
                   JArr(<<Condition("WorkspaceSucceeded", "True"),
                          Condition("WorkspaceReady", "False")>>)])])
WsReadyNotSucceeded ==
    Workspace([inference |-> Preset("phi-3"),
               status |-> JObj([conditions |->
                   JArr(<<Condition("WorkspaceSucceeded", "False"),
                          Condition("WorkspaceReady", "True")>>)])])
WsReadyThenNot ==
    Workspace([inference |-> Preset("phi-3"),
               status |-> JObj([conditions |->
                   JArr(<<Condition("WorkspaceReady", "True"),
                          Condition("WorkspaceReady", "False")>>)])])
WsReadyNumber ==
    Workspace([inference |-> Preset("phi-3"),
               status |-> JObj([conditions |->
                   JArr(<<JObj([type |-> JStr("WorkspaceReady"), status |-> JNum(1)]),
                          Condition("WorkspaceReady", "True")>>)])])
StatusWorkspaces ==
    Workspaces \cup {WsSucceeded, WsSucceededNotReady, WsReadyNotSucceeded, WsReadyThenNot,
                     WsReadyNumber}

(* the name of the workspace that the namespace holds, in a listing *)
ListedName == "llm"
APIOutcomes == {"ok", "error"}

(* NewStatusCmd.RunE of pkg/status.go, without --all-namespaces, --watch,   *)
(* --show-conditions and --show-worker-nodes: validate passes, then run     *)
StatusRun ==
    /\ cmd = "status" /\ pc = "start"
    /\ \E kubeNs \in KubeconfigNamespaces, cfg \in ConfigOutcomes, api \in APIOutcomes :
         LET ns == namespaceOf(Namespace, kubeNs)
         IN /\ Namespace' = ns
            /\ IF cfg # "ok"
               THEN /\ Finish(Err("failed to get " \o cfg))
                    /\ errOut' = <<Klog(Err("failed to get " \o cfg))>>
                    /\ UNCHANGED <<out, calls>>
               ELSE IF WorkspaceName # ""
               THEN /\ calls' = <<Call("ws_get", Named(WorkspaceName))>>
                    /\ IF ~workspace.found
                       THEN /\ Finish(Err("failed to get workspace " \o WorkspaceName))
                            /\ errOut' = <<Klog(Err("failed to get workspace "
                                                    \o WorkspaceName))>>
                            /\ UNCHANGED out
                       ELSE /\ Finish(Nil)
                            /\ out' = <<Details(WorkspaceName, ns)>>
                                      \o printDeploymentStatus(workspace)
                            /\ errOut' = <<>>
               ELSE /\ calls' = <<Call("ws_list", Named(ns))>>
                    /\ IF api # "ok"
                       THEN /\ Finish(Err("failed to list workspaces"))
                            /\ errOut' = <<Klog(Err("failed to list workspaces"))>>
                            /\ UNCHANGED out
                       ELSE /\ Finish(Nil)
                            /\ errOut' = <<>>
                            /\ out' = IF ~workspace.found THEN <<NoWorkspacesFound>>
                                      ELSE <<TableHeader,
                                             Row(ListedName,
                                                 getConditionStatus(workspace, "ResourceReady"),
                                                 getConditionStatus(workspace, "InferenceReady"),
                                                 getConditionStatus(workspace, "WorkspaceReady"))>>
    /\ UNCHANGED <<cmd, All, Force, args, store, WorkspaceName, SystemPrompt, Temperature,
                   MaxTokens, TopP, External, Format, svc, workspace, resolvable, probe,
                   endpoint, modelName, input, resp, lastPost, nlines>>

(* NewStatusCmd.RunE of pkg/cmd/status.go, without --all-namespaces and     *)
(* --watch: Complete, Validate, then Run                                    *)
StatusCmdRun ==
    /\ cmd = "cmd/status" /\ pc = "start"
    /\ \E flagNs \in KubeconfigNamespaces, cfg \in ConfigOutcomes, api \in APIOutcomes :
         LET ns == namespaceOf(Namespace, flagNs)
             status == NestedMap(workspace.Object, "status")
         IN /\ Namespace' = ns
            /\ IF cfg # "ok"
               THEN /\ Finish(Err("failed to get " \o cfg))
                    /\ UNCHANGED <<out, calls>>
               ELSE IF WorkspaceName # ""
               THEN /\ calls' = <<Call("ws_get", Named(WorkspaceName))>>
                    /\ IF ~workspace.found
                       THEN /\ Finish(Err("failed to get workspace " \o WorkspaceName))
                            /\ UNCHANGED out
                       ELSE /\ Finish(Nil)
                            /\ out' = printWorkspaceDetail(WorkspaceName, ns, workspace)
               ELSE /\ calls' = <<Call("ws_list", Named(ns))>>
                    /\ IF api # "ok"
                       THEN /\ Finish(Err("failed to list workspaces"))
                            /\ UNCHANGED out
                       ELSE /\ Finish(Nil)
                            /\ out' = IF ~workspace.found THEN <<NoWorkspacesFound>>
                                      ELSE <<TableHeader,
                                             Row(ListedName,
                                                 extractConditionStatus(status, "ResourceReady"),
                                                 extractConditionStatus(status, "InferenceReady"),
                                                 extractConditionStatus(status, "WorkspaceReady"))
                                             @@ [JobStarted |->
                                                   extractConditionStatus(status, "JobStarted")]>>
    /\ UNCHANGED <<cmd, All, Force, args, store, WorkspaceName, SystemPrompt, Temperature,
                   MaxTokens, TopP, External, Format, svc, workspace, resolvable, probe,
                   endpoint, modelName, input, resp, lastPost, errOut, nlines>>

-----------------------------------------------------------------------------
(* the delete command *)

(* strings.ToLower, on the words that have a capital letter *)
Lower ==
    ("Y" :> "y") @@ ("N" :> "n") @@ ("YES" :> "yes") @@ ("Yes" :> "yes") @@ ("yeS" :> "yes") @@
    ("NO" :> "no") @@ ("Yep" :> "yep")
ToLower(w) == IF w.text \in DOMAIN Lower THEN [w EXCEPT !.text = Lower[w.text]] ELSE w

(* fmt.Scanln(&response), its error dropped: the first word of the line,    *)
(* blanks before it skipped; "" when the line has no word or the input has  *)
(* ended; what follows the first word plays no part                         *)
Scanln(in) ==
    IF in.kind # "line" \/ Fields(in.text) = <<>> THEN W("") ELSE Fields(in.text)[1]

(* strings.ToLower(response) != "y" && strings.ToLower(response) != "yes", negated *)
saidYes(in) == ToLower(Scanln(in)) = W("y") \/ ToLower(Scanln(in)) = W("yes")

ConfirmPrompt(what) == [k |-> "confirm", what |-> what]
Cancelled == [k |-> "cancelled"]
Deleting(name) == [k |-> "deleting", name |-> name]
DeletingAll(n) == [k |-> "deleting all", n |-> n]
Deleted(name) == [k |-> "deleted", name |-> name]
DeleteFailed(name) == [k |-> "delete failed", name |-> name]
Note == [k |-> "note"]

Item(name, deletable) == [name |-> name, deletable |-> deletable]
StoreNames(st) == {st[i].name : i \in 1..Len(st)}
ItemNamed(st, name) == CHOOSE it \in {st[i] : i \in 1..Len(st)} : it.name = name
NoDeletion == [err |-> Nil, out |-> <<>>, calls |-> <<>>, asked |-> FALSE, deleted |-> {}]

(* the arguments of NewDeleteCmd.RunE: the workspace name, or an error *)
parseArgs(all, a) ==
    IF ~all /\ Len(a) # 1
    THEN [name |-> "",
          err |-> Err("workspace name is required (or use --all to delete all workspaces)")]
    ELSE IF Len(a) = 0 THEN [name |-> "", err |-> Nil]
    ELSE IF Len(a[1]) = 1 THEN [name |-> a[1][1], err |-> Nil]
    ELSE IF Len(a[1]) = 2 /\ a[1][1] = "workspace" THEN [name |-> a[1][2], err |-> Nil]
    ELSE [name |-> "", err |-> Err("invalid workspace reference format")]

(* DeleteOptions.Validate *)
validateDelete(all, name) ==
    IF ~all /\ name = "" THEN Err("workspace name is required when not using --all")
    ELSE IF all /\ name # "" THEN Err("cannot specify workspace name when using --all")
    ELSE Nil

(* DeleteOptions.deleteSingleWorkspace *)
deleteSingleWorkspace(name, ns, st, force, in, api) ==
    LET get == <<Call("ws_get", Named(name))>>
        del == <<Call("ws_delete", Named(name))>>
        ask == IF force THEN <<>> ELSE <<ConfirmPrompt(name)>>
    IN IF api # "ok"
       THEN [NoDeletion EXCEPT !.err = Err("failed to get workspace " \o name), !.calls = get]
       ELSE IF name \notin StoreNames(st)
       THEN [NoDeletion EXCEPT !.err = Err("workspace " \o name \o " not found in namespace "
                                           \o ns),
                               !.calls = get]
       ELSE IF ~force /\ ~saidYes(in)
       THEN [NoDeletion EXCEPT !.out = ask \o <<Cancelled>>, !.calls = get, !.asked = TRUE]
       ELSE IF ~ItemNamed(st, name).deletable
       THEN [err |-> Err("failed to delete workspace " \o name),
             out |-> ask \o <<Deleting(name)>>, calls |-> get \o del,
             asked |-> ~force, deleted |-> {}]
       ELSE [err |-> Nil, out |-> ask \o <<Deleting(name), Deleted(name), Note>>,
             calls |-> get \o del, asked |-> ~force, deleted |-> {name}]

(* the loop of DeleteOptions.deleteAllWorkspaces, from the i-th item on *)
RECURSIVE deleteEach(_, _)
deleteEach(st, i) ==
    IF i > Len(st) THEN [out |-> <<>>, calls |-> <<>>, deleted |-> {}]
    ELSE LET rest == deleteEach(st, i + 1)
             name == st[i].name
         IN [out |-> <<Deleting(name),
                       IF st[i].deletable THEN Deleted(name) ELSE DeleteFailed(name)>>
                     \o rest.out,
             calls |-> <<Call("ws_delete", Named(name))>> \o rest.calls,
             deleted |-> (IF st[i].deletable THEN {name} ELSE {}) \cup rest.deleted]

(* DeleteOptions.deleteAllWorkspaces *)
deleteAllWorkspaces(ns, st, force, in, api) ==
    LET list == <<Call("ws_list", Named(ns))>>
        ask == IF force THEN <<>> ELSE <<ConfirmPrompt(Len(st))>>
        each == deleteEach(st, 1)
    IN IF api # "ok"
       THEN [NoDeletion EXCEPT !.err = Err("failed to list workspaces"), !.calls = list]
       ELSE IF Len(st) = 0
       THEN [NoDeletion EXCEPT !.out = <<NoWorkspacesFound>>, !.calls = list]
       ELSE IF ~force /\ ~saidYes(in)
       THEN [NoDeletion EXCEPT !.out = ask \o <<Cancelled>>, !.calls = list, !.asked = TRUE]
       ELSE [err |-> Nil, out |-> ask \o <<DeletingAll(Len(st))>> \o each.out \o <<Note>>,
             calls |-> list \o each.calls, asked |-> ~force, deleted |-> each.deleted]

(* the arguments, the namespaces and the answers that delete is run with *)
Args == {<<>>, << <<"llm">> >>, << <<"gone">> >>, << <<"workspace", "llm">> >>,
         << <<"pod", "llm">> >>, << <<"">> >>}
Stores == {<<>>, <<Item("llm", TRUE)>>, <<Item("llm", FALSE)>>,
           <<Item("llm", TRUE), Item("ws", TRUE)>>,
           <<Item("a", TRUE), Item("llm", FALSE), Item("ws", TRUE)>>}
Answers ==
    { <<>>, <<SP>>, <<W("y")>>, <<W("Y")>>, <<W("yes")>>, <<W("YES")>>, <<W("Yes")>>,
      <<W("yeS")>>, <<W("n")>>, <<W("N")>>, <<W("no")>>, <<W("Yep")>>, <<W("ok")>>,
      <<C("y")>>, <<SP, W("y")>>, <<W("yes"), SP>>,
      <<W("yes"), SP, W("please")>>, <<W("y"), SP, W("no")>>, <<W("no"), SP, W("yes")>> }
Typed == {[kind |-> "line", text |-> a] : a \in Answers} \cup {[kind |-> "eof", text |-> <<>>]}

(* the status and delete commands, their flags parsed *)
InitManage ==
    /\ SystemPrompt = "" /\ Temperature = F(70) /\ MaxTokens = 1024 /\ TopP = F(90)
    /\ External = FALSE /\ Format = "url"
    /\ svc = NoService /\ resolvable = {} /\ probe = NothingListens
    /\ Namespace \in NamespaceFlags
    /\ \/ /\ cmd \in {"status", "cmd/status"}
          /\ WorkspaceName \in {"", "llm"}
          /\ workspace \in StatusWorkspaces
          /\ NotDeleting
       \/ /\ cmd = "delete"
          /\ WorkspaceName = ""
          /\ workspace = NoWorkspace
          /\ All \in BOOLEAN /\ Force \in BOOLEAN
          /\ args \in Args
          /\ store \in Stores
    /\ Idle

(* NewDeleteCmd.RunE returning before Run: the arguments or Validate fail *)
DeleteRejected ==
    /\ cmd = "delete" /\ pc = "start"
    /\ LET parsed == parseArgs(All, args)
       IN IF parsed.err # Nil
          THEN Finish(parsed.err) /\ UNCHANGED WorkspaceName
          ELSE /\ validateDelete(All, parsed.name) # Nil
               /\ Finish(validateDelete(All, parsed.name))
               /\ WorkspaceName' = parsed.name
    /\ UNCHANGED <<cmd, All, Force, args, store, Namespace, SystemPrompt, Temperature,
                   MaxTokens, TopP, External, Format, svc, workspace, resolvable, probe,
                   endpoint, modelName, input, resp, lastPost, out, errOut, calls, nlines>>

(* NewDeleteCmd.RunE when the arguments and Validate pass: Complete and Run *)
DeleteRun ==
    /\ cmd = "delete" /\ pc = "start"
    /\ parseArgs(All, args).err = Nil
    /\ validateDelete(All, parseArgs(All, args).name) = Nil
    /\ \E flagNs \in KubeconfigNamespaces, cfg \in ConfigOutcomes, api \in APIOutcomes,
          in \in Typed :
         LET name == parseArgs(All, args).name
             ns == namespaceOf(Namespace, flagNs)
             d == IF All THEN deleteAllWorkspaces(ns, store, Force, in, api)
                  ELSE deleteSingleWorkspace(name, ns, store, Force, in, api)
         IN /\ WorkspaceName' = name
            /\ Namespace' = ns
            /\ IF cfg # "ok"
               THEN /\ Finish(Err("failed to get " \o cfg))
                    /\ UNCHANGED <<out, calls, input, store>>
               ELSE /\ Finish(d.err)
                    /\ out' = d.out
                    /\ calls' = d.calls
                    /\ input' = IF d.asked THEN in ELSE NoInput
                    /\ store' = SelectSeq(store, LAMBDA it : it.name \notin d.deleted)
    /\ UNCHANGED <<cmd, All, Force, args, SystemPrompt, Temperature, MaxTokens, TopP,
                   External, Format, svc, workspace, resolvable, probe, endpoint, modelName,
                   resp, lastPost, errOut, nlines>>

NextManage ==
    \/ StatusRun
    \/ StatusCmdRun
    \/ DeleteRejected
    \/ DeleteRun

SpecManage == InitManage /\ [][NextManage]_vars

-----------------------------------------------------------------------------
(* vocabulary of the properties *)

Within(x, lo, hi) == ~x.nan /\ lo <= x.v /\ x.v <= hi
Outside(x, lo, hi) == ~x.nan /\ (x.v < lo \/ x.v > hi)
Printed(kind) == \E i \in 1..Len(out) : out[i].k = kind
PromptShown(o) == o # <<>> /\ o[Len(o)] = Prompt
Called(kind) == \E i \in 1..Len(calls) : calls[i].k = kind
ValidationErrors == {"workspace name is required",
                     "temperature must be between 0.0 and 2.0",
                     "top-p must be between 0.0 and 1.0",
                     "max-tokens must be greater than 0"}
FirstWord(in) == Fields(TrimSpace(in.text))[1]
IsCommandLine(in) == in.kind = "line" /\ HasSlashPrefix(TrimSpace(in.text))
IsMessageLine(in) ==
    in.kind = "line" /\ ~HasSlashPrefix(TrimSpace(in.text)) /\ TrimSpace(in.text) # <<>>
ParamsOf(t, m, p) == <<t, m, p>>

-----------------------------------------------------------------------------
(* C1: when standard input reaches end of file, the session prints the     *)
(* closing message and returns no error.                                    *)
C1_EofClosesGracefully ==
    (cmd = "chat" /\ pc = "done" /\ input.kind = "eof")
        => (result = Nil /\ Printed("ended") /\ errOut = <<>>)

(* C2: in the chat command a workspace without a WorkspaceReady=True        *)
(* condition stops the command before any endpoint resolution: no Service   *)
(* fetch, no lookup, no probe, no prompt, no inference request.             *)
C2_ReadinessGateFirst ==
    (cmd = "chat" /\ workspace.found /\ checkWorkspaceReady(WorkspaceName, workspace) # Nil)
        => /\ pc # "reading"
           /\ ~Called("svc_get") /\ ~Called("lookup_host") /\ ~Called("head")
           /\ ~Called("post")
           /\ ~Printed("prompt")

(* C3: a chat invocation whose flags are out of range (or whose workspace   *)
(* name is empty) ends with the validation error and has made no external   *)
(* call of any kind.                                                        *)
FlagsOutOfRange ==
    \/ WorkspaceName = ""
    \/ Outside(Temperature, 0, 200)
    \/ Outside(TopP, 0, 100)
    \/ MaxTokens <= 0

C4_ValidateExactlyTheRanges ==
    (cmd = "chat" /\ pc # "start" /\ nlines = 0)
        => ((result.e \in ValidationErrors)
              <=> ~(/\ WorkspaceName # ""
                    /\ Within(Temperature, 0, 200)
                    /\ Within(TopP, 0, 100)
                    /\ MaxTokens > 0))

(* C5: at every point of an interactive session temperature is in          *)
(* [0.0, 2.0], top-p in [0.0, 1.0] and max-tokens positive.                 *)
C5_ParamsAlwaysInRange ==
    (cmd = "chat" /\ pc = "reading")
        => /\ Within(Temperature, 0, 200)
           /\ Within(TopP, 0, 100)
           /\ MaxTokens > 0

-----------------------------------------------------------------------------
(* /set lines, described by their words *)

IsSetLine(in) == IsCommandLine(in) /\ FirstWord(in) = C("set")
SetWords(in) == Fields(TrimSpace(in.text))

(* the /set line names a parameter and gives a value it may take *)
SetAcceptable(w) ==
    /\ Len(w) >= 3
    /\ \/ w[2] = W("temperature") /\ ParseFloat(w[3]).ok /\ Within(ParseFloat(w[3]).v, 0, 200)
       \/ w[2] = W("top_p") /\ ParseFloat(w[3]).ok /\ Within(ParseFloat(w[3]).v, 0, 100)
       \/ w[2] = W("max_tokens") /\ Atoi(w[3]).ok /\ Atoi(w[3]).v > 0

Turn == pc = "reading" /\ nlines' = nlines + 1

(* C6: a rejected /set leaves temperature, max-tokens, top-p and the system *)
(* prompt as they were, prints an error or the usage, and the session goes  *)
(* on reading with a new prompt.                                            *)
C6_RejectedSetStep ==
    (Turn /\ IsSetLine(input') /\ ~SetAcceptable(SetWords(input')))
        => /\ ParamsOf(Temperature', MaxTokens', TopP') = ParamsOf(Temperature, MaxTokens, TopP)
           /\ SystemPrompt' = SystemPrompt
           /\ pc' = "reading"
           /\ Len(out') = 2
           /\ out'[1].k \in {"usage", "invalid value", "unknown parameter"}
           /\ PromptShown(out')

C6_RejectedSetChangesNothing == [][C6_RejectedSetStep]_vars

C6_Witness ==
    /\ pc = "reading"
    /\ IsSetLine(input) /\ SetWords(input) = <<C("set"), W("temperature"), W("5")>>
    /\ Printed("invalid value")
    /\ Temperature = F(70)

(* C7: an accepted /set gives the named parameter the value typed and       *)
(* leaves the other two alone; /params then shows the parameters held and   *)
(* every request sent carries them.                                         *)
SetValue(w) ==
    IF w[2] = W("max_tokens") THEN Atoi(w[3]).v ELSE ParseFloat(w[3]).v

C7_AcceptedSetStep ==
    (Turn /\ IsSetLine(input') /\ SetAcceptable(SetWords(input')))
        => LET w == SetWords(input')
           IN /\ pc' = "reading"
              /\ Temperature' = IF w[2] = W("temperature") THEN SetValue(w) ELSE Temperature
              /\ MaxTokens' = IF w[2] = W("max_tokens") THEN SetValue(w) ELSE MaxTokens
              /\ TopP' = IF w[2] = W("top_p") THEN SetValue(w) ELSE TopP

C7_OtherTurnStep ==
    (Turn /\ ~(IsSetLine(input') /\ SetAcceptable(SetWords(input'))))
        => ParamsOf(Temperature', MaxTokens', TopP') = ParamsOf(Temperature, MaxTokens, TopP)

C7_RequestCarriesParams ==
    lastPost.sent
        => /\ lastPost.payload.temperature = Temperature
           /\ lastPost.payload.max_tokens = MaxTokens
           /\ lastPost.payload.top_p = TopP

ShowsExactly(shown, f) == shown.nan = f.nan /\ (~f.nan => shown.tenths * 10 = f.v)
ShowsRounded(shown, f) ==
    shown.nan = f.nan
    /\ (~f.nan => /\ shown.tenths * 10 - f.v <= 5
                  /\ f.v - shown.tenths * 10 <= 5
                  /\ (f.v % 10 = 0 => shown.tenths * 10 = f.v))

ParamsLine == IsCommandLine(input) /\ FirstWord(input) = C("params") /\ pc = "reading"

(* C7 as stated: /params shows the very value that was set       *)
C7_ParamsShowsExactValue ==
    /\ [][C7_AcceptedSetStep /\ C7_OtherTurnStep]_vars
    /\ [](C7_RequestCarriesParams)
    /\ [](ParamsLine => /\ ShowsExactly(out[1].temperature, Temperature)
                        /\ out[1].max_tokens = MaxTokens
                        /\ ShowsExactly(out[1].top_p, TopP))

(* C7 as amended: /params shows temperature and top-p to one decimal place  *)
(* (the nearest tenth), and max-tokens exactly                              *)
C7_ParamsShowsOneDecimal ==
    /\ [][C7_AcceptedSetStep /\ C7_OtherTurnStep]_vars
    /\ [](C7_RequestCarriesParams)
    /\ [](ParamsLine => /\ ShowsRounded(out[1].temperature, Temperature)
                        /\ out[1].max_tokens = MaxTokens
                        /\ ShowsRounded(out[1].top_p, TopP))

C7_Witness ==
    /\ ParamsLine
    /\ Temperature = F(125)
    /\ out[1].temperature = [nan |-> FALSE, tenths |-> 12]
    /\ MaxTokens = 512

(* C8: the session ends only on a line whose first word is /quit or /exit,  *)
(* or when the scanner stops (end of input); every other line keeps it      *)
(* reading, with a new prompt.                                              *)
Closing(in) ==
    \/ in.kind \in {"eof", "error"}
    \/ IsCommandLine(in) /\ FirstWord(in) \in {C("quit"), C("exit")}

C8_TurnStep ==
    Turn => IF Closing(input')
            THEN pc' = "done"
            ELSE pc' = "reading" /\ PromptShown(out') /\ result' = Running

CallFailed(r) ==
    \/ ~r.transportOK
    \/ ~r.readOK
    \/ r.status # 200
    \/ r.json.t = "invalid"
    \/ ~HasContent(r.json)

C9_FailedTurnStep ==
    (Turn /\ resp'.sent /\ CallFailed(resp'))
        => /\ Len(errOut') = 1 /\ errOut'[1].k = "error" /\ errOut'[1].err # Nil
           /\ out' = <<Prompt>>
           /\ pc' = "reading"
           /\ ParamsOf(Temperature', MaxTokens', TopP') = ParamsOf(Temperature, MaxTokens, TopP)
           /\ endpoint' = endpoint

C9_FailedCallKeepsSession == [][C9_FailedTurnStep]_vars

C9_Witness ==
    /\ pc = "reading" /\ resp.sent /\ resp.transportOK /\ resp.status = 500
    /\ errOut = <<ErrorLine([e |-> "API request failed with status", code |-> 500,
                             body |-> "boom"])>>
    /\ out = <<Prompt>>

(* C10: a Service whose ClusterIP is "" or "None" never yields a URL, in    *)
(* either resolver, with or without --external.                             *)
Headless == svc.found /\ svc.ClusterIP \in {"", "None"}
NoEndpoint == endpoint = NoURL /\ pc = "done" /\ result # Nil /\ out = <<>>

C10_HeadlessNeverResolves == (Headless /\ pc # "start") => NoEndpoint

(* C10 as amended: the same, except in get-endpoint with --external for a   *)
(* LoadBalancer Service that has an ingress entry with an IP or a hostname, *)
(* where the external URL is what is returned.                              *)
IngressHosts == {<<svc.Ingress[i].IP>> : i \in 1..Len(svc.Ingress)} \cup
                {<<svc.Ingress[i].Hostname>> : i \in 1..Len(svc.Ingress)}
ExternalAvailable ==
    /\ cmd = "get-endpoint" /\ External /\ svc.Type = "LoadBalancer"
    /\ IngressHosts \ {<<"">>} # {}

C10_HeadlessResolvesOnlyExternally ==
    (Headless /\ pc # "start")
        => IF ExternalAvailable
           THEN NoEndpoint \/ (result = Nil /\ endpoint.host \in IngressHosts \ {<<"">>})
           ELSE NoEndpoint

C10_Witness ==
    /\ cmd = "get-endpoint" /\ External /\ svc.Type = "LoadBalancer"
    /\ svc.ClusterIP = "None" /\ svc.Ingress = <<Ingress("", "")>>
    /\ checkWorkspaceReady(WorkspaceName, workspace) = Nil
    /\ pc = "done" /\ result = Err("service has no cluster IP")

-----------------------------------------------------------------------------
(* the readiness gate of get-endpoint, described by the workspace object *)

ReadyConditionPresent(ws) ==
    /\ Has(ws.Object, "status")
    /\ Has(ws.Object.v["status"], "conditions")
    /\ ws.Object.v["status"].v["conditions"].t = "arr"
    /\ \E i \in 1..Len(ws.Object.v["status"].v["conditions"].v) :
         LET c == ws.Object.v["status"].v["conditions"].v[i]
         IN /\ IsObj(c)
            /\ Has(c, "type") /\ c.v["type"].t = "str" /\ c.v["type"].v = "WorkspaceReady"
            /\ Has(c, "status") /\ c.v["status"].t = "str" /\ c.v["status"].v = "True"

NotReadyError(name) ==
    Err("workspace " \o name \o " is not ready yet. Use 'kubectl kaito status "
        \o "--workspace-name " \o name \o "' to check status")
NoStatusError(name) == Err("workspace " \o name \o " has no status information")

(* get-endpoint has fetched the workspace object and the gate has decided *)
GateDecided == cmd = "get-endpoint" /\ pc = "done" /\ Called("ws_get") /\ workspace.found
GatePassed == Called("svc_get")
GateRefusedWith(err) == result = err /\ ~Called("svc_get") /\ out = <<>>

(* C11 as stated: a workspace object without a WorkspaceReady condition of  *)
(* status "True" always gets the error that names it and points to           *)
(* 'kubectl kaito status --workspace-name <name>'; the gate lets through     *)
(* only an object that has such a condition.                                 *)
C11_NotReadyAlwaysPointsToStatus ==
    GateDecided
        => IF ReadyConditionPresent(workspace)
           THEN GatePassed
           ELSE GateRefusedWith(NotReadyError(WorkspaceName))

(* C11 as amended: the same, except that an object with no status field at  *)
(* all gets the error "workspace <name> has no status information", which    *)
(* names the workspace and does not mention the status command.              *)
C11_NotReadyPointsToStatusUnlessNoStatus ==
    GateDecided
        => IF ReadyConditionPresent(workspace)
           THEN GatePassed
           ELSE IF ~Has(workspace.Object, "status")
           THEN GateRefusedWith(NoStatusError(WorkspaceName))
           ELSE GateRefusedWith(NotReadyError(WorkspaceName))

C11_Witness ==
    /\ GateDecided
    /\ WorkspaceName = "llm" /\ workspace = WsConditionsNotList
    /\ result = NotReadyError("llm")
    /\ svc.found /\ svc.ClusterIP = "10.0.0.7"

-----------------------------------------------------------------------------
(* the chat resolver, described by the Service, the name server and the    *)
(* local ports                                                              *)

UsableClusterIP == svc.found /\ svc.ClusterIP # "" /\ svc.ClusterIP # "None"
ChatResolved == cmd = "chat" /\ Called("svc_get") /\ UsableClusterIP
NameResolves == ClusterHost(WorkspaceName, Namespace) \in resolvable
Reachable(port) == probe[port].ok /\ probe[port].status < 500
PortOrder == <<"8080", "8000", "3000", "5000">>
PortForwardError(name) ==
    Err("workspace endpoint is not accessible. To chat with this workspace, "
        \o "first set up port-forwarding: kubectl port-forward svc/" \o name \o " 8080:80")

(* C12: in the chat resolver, with a usable ClusterIP, a cluster name that  *)
(* does not resolve and no local port among 8080, 8000, 3000, 5000          *)
(* answering below 500, resolution ends with the error that tells the user  *)
(* to run 'kubectl port-forward svc/<name> 8080:80', and with no URL.       *)
C12_UnreachableGivesPortForwardError ==
    (ChatResolved /\ ~NameResolves /\ \A i \in 1..4 : ~Reachable(PortOrder[i]))
        => /\ pc = "done"
           /\ result = PortForwardError(WorkspaceName)
           /\ endpoint = NoURL
           /\ ~Printed("prompt") /\ ~Called("post")

C12_Witness ==
    /\ ChatResolved /\ ~NameResolves
    /\ WorkspaceName = "llm"
    /\ probe = [NothingListens EXCEPT !["8080"] = Answered(500), !["3000"] = Answered(500)]
    /\ result = PortForwardError("llm")
    /\ endpoint = NoURL

ClusterChatURL == URL(ClusterHost(WorkspaceName, Namespace), ":80", "/v1/chat/completions")

(* C13: in the chat resolver the cluster-internal endpoint is preferred     *)
(* over a local port-forward: whenever the cluster name of the workload     *)
(* resolves, the endpoint is the cluster-DNS URL and no localhost port is   *)
(* probed, even if one is listening; localhost ports are probed only when   *)
(* the name does not resolve.                                               *)
C13_ClusterPreferredOverLocal ==
    ChatResolved
        => /\ NameResolves => (endpoint = ClusterChatURL /\ ~Called("head"))
           /\ Called("head") => ~NameResolves

-----------------------------------------------------------------------------
(* get-endpoint, described by the Service and the --external flag *)

ServiceFetched == cmd = "get-endpoint" /\ pc = "done" /\ Called("svc_get") /\ svc.found
Populated(i) == svc.Ingress[i].IP # "" \/ svc.Ingress[i].Hostname # ""
FirstPopulated ==
    {i \in 1..Len(svc.Ingress) : Populated(i) /\ \A j \in 1..(i - 1) : ~Populated(j)}
ExternalWanted == External /\ svc.Type = "LoadBalancer" /\ FirstPopulated # {}
ExternalURLOf(i) ==
    URL(<<IF svc.Ingress[i].IP # "" THEN svc.Ingress[i].IP ELSE svc.Ingress[i].Hostname>>,
        ":80", "")
ClusterInternalURL == URL(ClusterHost(WorkspaceName, Namespace), ":80", "")

FirstReachable ==
    {i \in 1..4 : Reachable(PortOrder[i]) /\ \A j \in 1..(i - 1) : ~Reachable(PortOrder[j])}
FallsBack == ServiceFetched /\ External /\ ~ExternalWanted

(* C15 as stated: get-endpoint --external, with no external endpoint to     *)
(* return, goes through tiers 1-2: the cluster-DNS URL if the cluster name  *)
(* resolves, else the first answering localhost port-forward URL, else the  *)
(* unreachable-endpoint error.                                              *)
C15_ExternalFallsBackToTiers ==
    (FallsBack /\ UsableClusterIP)
        => IF NameResolves
           THEN result = Nil /\ endpoint = ClusterInternalURL
           ELSE IF FirstReachable # {}
           THEN result = Nil /\ \A i \in FirstReachable : endpoint = LocalURL(PortOrder[i])
           ELSE result # Nil /\ endpoint = NoURL

(* C15 as amended: get-endpoint --external, with no external endpoint to    *)
(* return, falls back to the cluster-internal URL alone: it returns         *)
(* http://<name>.<namespace>.svc.cluster.local:80 whenever the Service has  *)
(* a usable ClusterIP, with no DNS lookup and no localhost probe, and the   *)
(* no-cluster-IP error otherwise.                                           *)
C15_ExternalFallsBackToClusterURL ==
    FallsBack
        => /\ ~Called("lookup_host") /\ ~Called("head")
           /\ IF UsableClusterIP
              THEN result = Nil /\ endpoint = ClusterInternalURL
              ELSE result = Err("service has no cluster IP") /\ endpoint = NoURL

C15_Witness ==
    /\ FallsBack /\ UsableClusterIP
    /\ svc.Type = "LoadBalancer" /\ svc.Ingress = <<Ingress("", "")>>
    /\ ~NameResolves /\ Reachable("8000")
    /\ result = Nil /\ endpoint = ClusterInternalURL

-----------------------------------------------------------------------------
(* the chat-completion call, described by the answer of the server *)

Answered200 == resp.sent /\ resp.transportOK /\ resp.status = 200
AnsweredNot200 == resp.sent /\ resp.transportOK /\ resp.status # 200
StatusError == [e |-> "API request failed with status", code |-> resp.status, body |-> resp.raw]
NoReplyButError(errs) ==
    /\ out = <<Prompt>>
    /\ Len(errOut) = 1 /\ errOut[1].k = "error" /\ errOut[1].err \in errs

(* C16 as stated: every answer whose status is not 200 makes the call fail  *)
(* with an error that carries the status code and the body as received,     *)
(* and never gives a reply, whatever the body holds.                        *)
C16_Not200IsErrorWithStatusAndBody ==
    AnsweredNot200 => NoReplyButError({StatusError})

(* C16 as amended: the same for every answer whose body could be read; an   *)
(* answer whose body cannot be read fails with the read error, which        *)
(* carries neither the status code nor the body.                            *)
C16_Not200IsErrorWithStatusAndBodyIfRead ==
    AnsweredNot200
        => IF resp.readOK
           THEN NoReplyButError({StatusError})
           ELSE NoReplyButError({Err("failed to read response")})

C16_Witness ==
    /\ resp = HTTP(404, "hi", Choices(JStr(<<W("hi")>>)))
    /\ errOut = <<ErrorLine([e |-> "API request failed with status", code |-> 404,
                             body |-> "hi"])>>
    /\ out = <<Prompt>> /\ pc = "reading"

(* the body is an object whose choices is a non-empty array whose first     *)
(* element is an object with an object message holding a string content     *)
WellFormed(j) ==
    /\ j.t = "obj" /\ "choices" \in DOMAIN j.v
    /\ j.v["choices"].t = "arr" /\ Len(j.v["choices"].v) >= 1
    /\ LET first == j.v["choices"].v[1]
       IN /\ first.t = "obj" /\ "message" \in DOMAIN first.v
          /\ first.v["message"].t = "obj" /\ "content" \in DOMAIN first.v["message"].v
          /\ first.v["message"].v["content"].t = "str"
FirstContent(j) == j.v["choices"].v[1].v["message"].v["content"].v

(* text is what is left of full once the blanks around it are taken off *)
IsTrimOf(text, full) ==
    /\ text = <<>> \/ (text[1] # SP /\ text[Len(text)] # SP)
    /\ \E a \in 0..Len(full) :
         /\ a + Len(text) <= Len(full)
         /\ \A i \in 1..Len(full) :
              IF i > a /\ i <= a + Len(text) THEN full[i] = text[i - a] ELSE full[i] = SP

(* C17: a 200 answer gives as reply choices[0].message.content with the     *)
(* blanks around it trimmed when the body has that shape, and an error and  *)
(* no reply for every other body; only the first choice is used.            *)
C17_Reply200IsFirstChoiceTrimmed ==
    Answered200
        => IF resp.readOK /\ WellFormed(resp.json)
           THEN /\ errOut = <<>>
                /\ Len(out) = 2 /\ out[1].k = "reply" /\ out[2] = Prompt
                /\ IsTrimOf(out[1].text, FirstContent(resp.json))
           ELSE NoReplyButError({Err("failed to read response"),
                                 Err("failed to parse response"),
                                 Err("unexpected response format")})

C17_Witness ==
    /\ Answered200 /\ resp.raw = "two choices"
    /\ out = <<Reply(<<W("hi"), SP, W("there")>>), Prompt>>
    /\ errOut = <<>>

Posts == SelectSeq(calls, LAMBDA c : c.k = "post")

(* C18: no conversation history is kept: the messages of every request are  *)
(* exactly [user message] when the system prompt is empty and               *)
(* [system prompt, user message] otherwise, the user message being the line *)
(* just read, so that the payload is a function of the system prompt, the   *)
(* current parameters and the current message alone.                        *)
C18_PayloadHasNoHistory ==
    lastPost.sent
        => /\ IsMessageLine(input)
           /\ lastPost.payload =
                [messages |->
                     IF SystemPrompt = ""
                     THEN <<[role |-> "user", content |-> TrimSpace(input.text)]>>
                     ELSE <<[role |-> "system", content |-> SystemPrompt],
                            [role |-> "user", content |-> TrimSpace(input.text)]>>,
                 temperature |-> Temperature, max_tokens |-> MaxTokens, top_p |-> TopP]

C18_Witness ==
    /\ Len(Posts) >= 2
    /\ lastPost.sent /\ SystemPrompt = "be brief"
    /\ TrimSpace(input.text) = <<W("hello")>>
    /\ Len(lastPost.payload.messages) = 2
    /\ out = <<Reply(<<W("hi")>>), Prompt>>

(* C19: a line that is the bare word quit or exit closes the session, and   *)
(* is not sent to the model.                                                *)
BareQuitOrExit(in) ==
    in.kind = "line" /\ TrimSpace(in.text) \in {<<W("quit")>>, <<W("exit")>>}

C19_BareQuitExits ==
    BareQuitOrExit(input)
        => /\ pc = "done" /\ result = Nil
           /\ ~lastPost.sent

-----------------------------------------------------------------------------
(* the local probes of the chat resolver *)

Heads == SelectSeq(calls, LAMBDA c : c.k = "head")
Localhost(port) == URL(<<"localhost">>, ":" \o port, "")

(* C20: the local probes go through 8080, 8000, 3000, 5000 in that order,   *)
(* one HEAD per port, and stop at the first port that answers with a status *)
(* below 500 (a 404 counts, a 500 or a transport error does not): that port *)
(* is the one of the returned endpoint and no later port is probed.         *)
C20_ProbesInOrderStopAtFirstAnswer ==
    (ChatResolved /\ Heads # <<>>)
        => /\ Len(Heads) <= 4
           /\ \A i \in 1..Len(Heads) : Heads[i].target = Localhost(PortOrder[i])
           /\ IF FirstReachable = {}
              THEN Len(Heads) = 4 /\ endpoint = NoURL
              ELSE \A i \in FirstReachable :
                     /\ Len(Heads) = i
                     /\ endpoint.host = <<"localhost">>
                     /\ endpoint.port = ":" \o PortOrder[i]

C20_Witness ==
    /\ ChatResolved
    /\ probe["8080"] = Answered(500) /\ probe["8000"] = Answered(404)
    /\ probe["3000"] = Answered(200) /\ probe["5000"] = Refused
    /\ Len(Heads) = 2
    /\ endpoint = URL(<<"localhost">>, ":8000", "/v1/chat/completions")
    /\ pc = "reading"

-----------------------------------------------------------------------------
(* the name that the tier-1 check hands to the resolver *)

Lookups == SelectSeq(calls, LAMBDA c : c.k = "lookup_host")
ClusterDNSName == URL(ClusterHost(WorkspaceName, Namespace), "", "")

(* C21: the tier-1 check looks up the cluster DNS name of the workload,     *)
(* <name>.<namespace>.svc.cluster.local, without scheme and without port,   *)
(* so that whenever that name resolves the chat resolver returns the        *)
(* cluster-internal endpoint and the session starts.                        *)
C21_LookupOnClusterName ==
    ChatResolved
        => /\ Len(Lookups) = 1
           /\ Lookups[1].target = ClusterDNSName
           /\ NameResolves => (pc = "reading" /\ result = Running /\ endpoint = ClusterChatURL)

-----------------------------------------------------------------------------
(* the endpoint of a session *)

ResolutionKinds == {"svc_get", "lookup_host", "head"}
Resolutions == SelectSeq(calls, LAMBDA c : c.k \in ResolutionKinds)
BaseURLs == {ClusterURL(WorkspaceName, Namespace)} \cup
            {LocalURL(PortOrder[i]) : i \in 1..4}

(* the session holds one endpoint, a base URL with the path once, and has  *)
(* resolved it once, before anything else                                   *)
C22_OneEndpointHeld ==
    (cmd = "chat" /\ pc = "reading")
        => /\ \E b \in BaseURLs : endpoint = URL(b.host, b.port, "/v1/chat/completions")
           /\ Len(SelectSeq(calls, LAMBDA c : c.k = "svc_get")) = 1
           /\ \A i \in 1..Len(calls) :
                calls[i].k = "post" => /\ calls[i].target = endpoint
                                       /\ \A j \in i..Len(calls) : calls[j].k = "post"
           /\ lastPost.sent => lastPost.url = endpoint

(* a turn of the loop keeps the endpoint and makes no call but a POST to it *)
C22_TurnStep ==
    Turn => /\ endpoint' = endpoint
            /\ Resolutions' = Resolutions
            /\ calls' \in {calls, Append(calls, Call("post", endpoint))}

-----------------------------------------------------------------------------
(* the requests of a session, counted against its lines *)

(* a turn issues one POST when its line is a message and none otherwise,    *)
(* and the prompt that follows comes with the outcome of that one call      *)
C23_TurnStep ==
    Turn => /\ Len(Posts') = Len(Posts) + (IF IsMessageLine(input') THEN 1 ELSE 0)
            /\ IsMessageLine(input') => resp'.sent
            /\ pc' = "reading" => PromptShown(out')

(* C23: over any sequence of input lines the session issues as many POSTs   *)
(* as there are lines that, once trimmed, are non-empty and do not start    *)
(* with "/": one attempt per such line, none for blank lines and            *)
(* slash-commands, and the next prompt only after the call has returned.    *)
C23_OnePostPerMessageLine == [][C23_TurnStep]_vars

-----------------------------------------------------------------------------
(* the order of the two fetches of get-endpoint *)

GateClosed == ~workspace.found \/ ~ReadyConditionPresent(workspace)

(* C24: get-endpoint checks the readiness of the workspace before it looks  *)
(* up the Service: the workspace is the first thing fetched, and when it    *)
(* cannot be fetched or is not ready the command returns an error, without  *)
(* fetching the Service and without printing a URL, in url and json format. *)
C24_ReadinessBeforeService ==
    (cmd = "get-endpoint" /\ pc = "done" /\ calls # <<>>)
        => /\ calls[1] = Call("ws_get", Named(WorkspaceName))
           /\ \A i \in 2..Len(calls) : calls[i].k # "ws_get"
           /\ GateClosed => /\ Len(calls) = 1
                            /\ result # Nil /\ result # Running
                            /\ out = <<>> /\ endpoint = NoURL

C24_Witness ==
    /\ cmd = "get-endpoint" /\ pc = "done" /\ Format = "json"
    /\ workspace = WsNotReady
    /\ svc.found /\ svc.ClusterIP = "10.0.0.7"
    /\ calls = <<Call("ws_get", Named("llm"))>>
    /\ result = NotReadyError("llm") /\ out = <<>>

-----------------------------------------------------------------------------
(* the model name of the banner, described by the workspace object *)

(* a value as it is displayed: a string as it is, a number in digits,       *)
(* nothing for null                                                         *)
Shown(j) == IF j.t = "str" THEN j.v ELSE IF j.t = "num" THEN ToString(j.v) ELSE ""
SpecPresetName ==
    LET o == workspace.Object
    IN IF /\ Has(o, "spec") /\ Has(o.v["spec"], "inference")
          /\ Has(o.v["spec"].v["inference"], "preset")
          /\ Has(o.v["spec"].v["inference"].v["preset"], "name")
       THEN Shown(o.v["spec"].v["inference"].v["preset"].v["name"])
       ELSE ""
InferencePresetName ==
    LET o == workspace.Object
    IN IF /\ Has(o, "inference") /\ Has(o.v["inference"], "preset")
          /\ Has(o.v["inference"].v["preset"], "name")
       THEN Shown(o.v["inference"].v["preset"].v["name"])
       ELSE ""
InferenceModel ==
    LET o == workspace.Object
    IN IF Has(o, "inference") /\ Has(o.v["inference"], "model")
       THEN Shown(o.v["inference"].v["model"])
       ELSE ""
ExpectedModel ==
    IF ~workspace.found THEN "Unknown"
    ELSE IF SpecPresetName # "" THEN SpecPresetName
    ELSE IF InferencePresetName # "" THEN InferencePresetName
    ELSE IF InferenceModel # "" THEN InferenceModel
    ELSE "Unknown"
ResolverErrors ==
    {Err("failed to get service"), Err("service has no cluster IP"),
     PortForwardError(WorkspaceName)}

(* C25: the model name displayed by the chat session is the first non-empty *)
(* value among spec.inference.preset.name, inference.preset.name and        *)
(* inference.model, in that order, and "Unknown" when all three are absent  *)
(* or empty or when the workspace cannot be fetched; the chat command       *)
(* never ends because of the model name: once the Service has been fetched  *)
(* it ends before the first prompt only with an error of the resolver.      *)
C25_ModelNameFirstNonEmpty ==
    (cmd = "chat" /\ pc # "start" /\ Called("svc_get"))
        => IF pc = "reading"
           THEN /\ modelName = ExpectedModel
                /\ out[1] = Banner(WorkspaceName, ExpectedModel)
           ELSE result \in ResolverErrors

C25_Witness ==
    /\ cmd = "chat" /\ pc = "reading"
    /\ workspace = WsSpecEmpty
    /\ modelName = "phi-3"
    /\ out[1] = Banner("llm", "phi-3")

-----------------------------------------------------------------------------
(* the access classification of the JSON output *)

JsonPrinted == cmd = "get-endpoint" /\ pc = "done" /\ Len(out) = 1 /\ out[1].k = "json"

(* C26: the access that get-endpoint reports in its JSON output matches the *)
(* tier that produced the URL: "external" only for an endpoint built from a *)
(* load-balancer ingress IP or hostname, "cluster" whenever the endpoint is *)
(* the <name>.<namespace>.svc.cluster.local URL, also when --external was   *)
(* asked and resolution fell back.                                          *)
C26_AccessMatchesTier ==
    JsonPrinted
        => /\ out[1].endpoint = endpoint
           /\ out[1].access \in {"external", "cluster"}
           /\ out[1].access = "cluster" <=> endpoint = ClusterInternalURL
           /\ out[1].access = "external"
                => /\ svc.Type = "LoadBalancer"
                   /\ endpoint.host \in IngressHosts \ {<<"">>}

-----------------------------------------------------------------------------
(* the flags and /set, on the same values *)

(* /set <param> <text> changes the parameter and reports it *)
SetTakes(param, text) ==
    LET sp == setParameter(W(param), W(text), F(70), 1024, F(90))
    IN sp.out[1].k \notin {"invalid value", "unknown parameter"}

(* /set <param> takes some text that stands for the value x *)
SetTakesFloat(param, x) == \E l \in DOMAIN FloatLits : FloatLits[l] = x /\ SetTakes(param, l)
SetTakesInt(n) == \E l \in DOMAIN IntLits : IntLits[l] = n /\ SetTakes("max_tokens", l)

FlagsTaken == result.e \notin ValidationErrors

(* the flags of an invocation pass validate exactly when /set would take    *)
(* each of them                                                             *)
C27_FlagsAsSet ==
    (cmd = "chat" /\ pc # "start" /\ nlines = 0 /\ WorkspaceName # "")
        => (FlagsTaken <=> /\ SetTakesFloat("temperature", Temperature)
                           /\ SetTakesFloat("top_p", TopP)
                           /\ SetTakesInt(MaxTokens))

(* a /set of a value takes it exactly when validate would pass it as a flag *)
C27_SetStep ==
    (Turn /\ IsSetLine(input') /\ Len(SetWords(input')) >= 3)
        => LET w == SetWords(input')
               taken == out'[1].k \notin {"invalid value", "unknown parameter"}
           IN /\ (w[2] = W("temperature") /\ ParseFloat(w[3]).ok)
                    => (taken <=> validate("ws", ParseFloat(w[3]).v, F(90), 1024) = Nil)
              /\ (w[2] = W("top_p") /\ ParseFloat(w[3]).ok)
                    => (taken <=> validate("ws", F(70), ParseFloat(w[3]).v, 1024) = Nil)
              /\ (w[2] = W("max_tokens") /\ Atoi(w[3]).ok)
                    => (taken <=> validate("ws", F(70), F(90), Atoi(w[3]).v) = Nil)

(* C27: the validation of the flags and the /set command accept the same    *)
(* values of each parameter: a value passes as --temperature, --top-p or    *)
(* --max-tokens if and only if /set temperature, /set top_p or              *)
(* /set max_tokens takes it, for every value the flag parser can deliver,   *)
(* NaN included.                                                            *)
C27_FlagsAndSetAcceptTheSame == [](C27_FlagsAsSet) /\ [][C27_SetStep]_vars

-----------------------------------------------------------------------------
(* the cost of a resolution *)

ServiceGets == SelectSeq(calls, LAMBDA c : c.k = "svc_get")
Resolved == pc # "start" /\ ServiceGets # <<>>
HasURL == endpoint # NoURL /\ result \in {Nil, Running}
HasError == endpoint = NoURL /\ result \notin {Nil, Running}

(* C29: endpoint resolution ends with either a URL or an error after a      *)
(* bounded number of external calls: at most one Service fetch, at most one *)
(* lookup and at most four HEAD probes, no port probed twice, whatever the  *)
(* Service store, the name server and the probed ports answer.              *)
C29_ResolutionIsBounded ==
    /\ Len(ServiceGets) <= 1 /\ Len(Lookups) <= 1 /\ Len(Heads) <= 4
    /\ \A i, j \in 1..Len(Heads) : Heads[i] = Heads[j] => i = j
    /\ Resolved => /\ HasURL \/ HasError
                   /\ Len(ServiceGets) + Len(Lookups) + Len(Heads) + Len(Posts)
                        = Len(calls) - (IF Called("ws_get") THEN 1 ELSE 0)

C29_Witness ==
    /\ cmd = "chat" /\ Resolved /\ NameResolves
    /\ \A i \in 1..4 : probe[PortOrder[i]] = Refused
    /\ Len(ServiceGets) = 1 /\ Len(Lookups) = 1 /\ Len(Heads) = 4
    /\ HasError

-----------------------------------------------------------------------------
(* the gate and the status command, on the same workspace *)

GateOpen == checkWorkspaceReady(ListedName, workspace) = Nil
StatusDone == cmd \in {"status", "cmd/status"} /\ pc = "done" /\ result = Nil
ShowsReady(kind) ==
    \E i \in 1..Len(out) : out[i].k = kind /\ out[i].WorkspaceReady = "True"

(* C28: the readiness gate and the status command agree: the "Workspace     *)
(* Ready" value of the status detail view and the WORKSPACEREADY column of  *)
(* the status table are the status of the condition that the gate consults *)
(* (type WorkspaceReady), so that the gate passes if and only if the status *)
(* command shows Workspace Ready as True.                                   *)
C28_StatusAgreesWithGate ==
    /\ (StatusDone /\ cmd = "status" /\ Printed("details"))
          => (ShowsReady("deployment status") <=> GateOpen)
    /\ (StatusDone /\ Printed("row")) => (ShowsReady("row") <=> GateOpen)

-----------------------------------------------------------------------------
(* delete, described by the answer typed at the prompt *)

DeleteStep == cmd = "delete" /\ pc = "start" /\ pc' = "done"
DeletesOf(cs) == SelectSeq(cs, LAMBDA c : c.k = "ws_delete")
AskedIn(o) == \E i \in 1..Len(o) : o[i].k = "confirm"

(* the answer is y or yes, in any case, blanks around it aside *)
AnsweredYes(in) ==
    /\ in.kind = "line"
    /\ Len(TrimSpace(in.text)) = 1
    /\ ToLower(TrimSpace(in.text)[1]) \in {W("y"), W("yes")}

C30_DeleteStep ==
    DeleteStep
        => /\ (~Force /\ ~AnsweredYes(input'))
                => /\ DeletesOf(calls') = <<>> /\ store' = store
                   /\ AskedIn(out') => result' = Nil
           /\ (~All /\ calls' # <<>> /\ WorkspaceName' \notin StoreNames(store))
                => /\ result' \in {Err("workspace " \o WorkspaceName' \o " not found in namespace "
                                       \o Namespace'),
                                   Err("failed to get workspace " \o WorkspaceName')}
                   /\ ~AskedIn(out') /\ input' = NoInput
                   /\ DeletesOf(calls') = <<>>
           /\ (All /\ DeletesOf(calls') # <<>>)
                => /\ Len(DeletesOf(calls')) = Len(store)
                   /\ \A i \in 1..Len(store) :
                        DeletesOf(calls')[i] = Call("ws_delete", Named(store[i].name))
                   /\ result' = Nil

(* C30: delete without --force deletes nothing unless the answer to the     *)
(* confirmation prompt is y or yes, in any case: for any other answer, an   *)
(* empty one included, no Delete call is issued and the command returns     *)
(* success; a single named workspace that does not exist gives a not-found  *)
(* error before any prompt; with --all a failed delete does not stop the    *)
(* deletion of the remaining workspaces.                                    *)
C30_DeleteOnlyOnYes == [][C30_DeleteStep]_vars

====
